---------------------------- MODULE Spec2Model ----------------------------
(***************************************************************************)
(* State-machine model of the anomaly detection back end: the alert        *)
(* filter (internal/filter), the WebSocket hub (internal/ws), the video    *)
(* capture engine and the gRPC dispatch engine (internal/pipeline), and    *)
(* the runtime configuration they read (internal/config).                  *)
(*                                                                         *)
(* Each engine has its own specification (SpecFilter, SpecHub, ...) whose  *)
(* next-state relation is the disjunction of that engine's operations;     *)
(* the variables of the other engines are left unchanged. SpecAdmin,       *)
(* SpecPipeline, SpecAlerts and SpecScanner cover the administrative       *)
(* calls, the consumers of the result queue, ProcessDetections and the     *)
(* JPEG scanner.                                                           *)
(***************************************************************************)
EXTENDS Integers, Sequences, FiniteSets, TLC

VARIABLES
    \* ---- wall clock (time.Now), in seconds
    now,
    \* ---- config.Config, Filter section
    filterCfg,      \* Config.Filter
    \* ---- filter.AlertFilter
    activeAlerts,   \* AlertFilter.activeAlerts: sequence of ActiveAlert
    saPc,           \* per ShouldAlert caller: "idle" | "lock"
    saDet,          \* per caller: the detection passed to ShouldAlert
    saCfg,          \* per caller: filterConfig read at line 78
    saStale,        \* per caller: Config.Filter was written since that read
                    \* (history)
    saLast,         \* history: the last ShouldAlert call that returned
    saLog           \* history: the calls that returned true, in order, since
                    \* Config.Filter was last written and since the last call
                    \* that still used an older configuration

filterVars == <<now, filterCfg, activeAlerts, saPc, saDet, saCfg, saStale,
                saLast, saLog>>

VARIABLES
    \* ---- ws.Hub
    hubCtx,         \* h.ctx is cancelled
    hubClients,     \* h.clients
    hubBroadcast,   \* h.broadcast: the buffered channel, as a sequence
    hubPc,          \* Run: "select" | "register" | "unregister" | "fanout"
                    \* | "exited"
    hubArg,         \* Run: the client or message the select received
    stopPc,         \* Hub.Stop: "idle" | "lock" (cancelled, before h.mu.Lock)
                    \* | "done"
    hubPanic,       \* a closed channel was closed again or sent to
    \* ---- ws.Client and its HandleWebSocket handler, per consumer
    hPc,            \* handler: "new" | "register" | "read" | "unregister"
                    \* | "done"
    send,           \* client.send: the buffered channel, as a sequence
    sendClosed,     \* client.send is closed
    cCtx,           \* client.ctx is cancelled
    wPc,            \* writePump: "none" | "run" | "write" | "exited"
    wMsg,           \* writePump: the message being written
    \* ---- history
    bcastCount,     \* Broadcast calls so far; call n broadcasts event n
    bcastDropped,   \* events Broadcast dropped at a full h.broadcast
    admittedAt,     \* per consumer: bcastCount when it was put into
                    \* h.clients, -1 before
    received,       \* per consumer: events written to its connection
    dequeued        \* the events Run took from h.broadcast, in order

hubVars == <<hubCtx, hubClients, hubBroadcast, hubPc, hubArg, stopPc, hubPanic,
             hPc, send, sendClosed, cCtx, wPc, wMsg,
             bcastCount, bcastDropped, admittedAt, received, dequeued>>

VARIABLES
    \* ---- pipeline.VideoCapture
    vcIsOpen,       \* vc.isOpen
    vcCtx,          \* vc.ctx: "ctx0" made by NewVideoCapture, or the one
                    \* made by a Restart call, named by the caller
    vcCancel,       \* vc.cancel: the context it cancels
    ctxDone,        \* the cancelled contexts
    vcCmd,          \* vc.cmd: the command made by that Start call, or "nil"
    vcStdout,       \* vc.stdout: the stdout pipe of that command, or "nil"
    cmds,           \* per Start call, its exec.Cmd: state "none" (not made)
                    \* | "failed" (never started) | "running" | "exited"
                    \* (ended, not waited for) | "reaped" (killed and waited
                    \* for), and whether its stdout pipe is open
    vcPanic,        \* a goroutine panicked on a nil reader: the program
                    \* has terminated
    frameID,        \* vc.frameID
    frameChan,      \* the frame queue: the buffered channel, as a sequence
                    \* of Frame.ID
    \* ---- the callers
    mainPc,         \* main: "init" | "started" (Start returned) | "stopped"
                    \* (Stop returned) | "again" (a further Start returned)
    rPc,            \* per Restart call: "idle" | "ctx" (Stop done) | "cancel"
                    \* (vc.ctx written) | "start" (vc.cancel written)
                    \* | "done"
    \* ---- captureLoop goroutines, one per Start call that succeeded
    lpPc,           \* "none" | "init" | "read" | "load" | "store" | "send"
                    \* | "exited"
    lpReader,       \* reader: the pipe read at line 182, or "nil"
    lpVal,          \* the value of vc.frameID the loop holds (line 209,
                    \* then Frame.ID of line 213)
    \* ---- history
    parsed,         \* frames readJPEGFrame has returned
    life,           \* successful starts so far: the current source lifetime
    lifeIds,        \* the Frame.IDs assigned in the current lifetime, in
                    \* order
    restartedOpen,  \* some Restart call's Stop found vc.isOpen true
    srcOf,          \* per command: the VideoConfig Start read when it
                    \* built the command
    rErr,           \* per Restart call: what it returned, "none" (not yet)
                    \* | "nil" | "err"
    againOk         \* ffmpeg could be started when Start was called once
                    \* more after Stop

captureVars == <<vcIsOpen, vcCtx, vcCancel, ctxDone, vcCmd, vcStdout, cmds,
                 vcPanic, frameID, frameChan, mainPc, rPc, lpPc, lpReader,
                 lpVal, parsed, life, lifeIds, restartedOpen, srcOf, rErr,
                 againOk>>

VARIABLES
    \* ---- pipeline.GRPCClient
    gcPc,           \* main: "init" | "started" (Start returned nil)
                    \* | "failed" (Start returned an error) | "stopped"
    gcCtxDone,      \* gc.ctx is cancelled
    gcConn,         \* gc.conn is not nil
    gcClient,       \* gc.client is not nil
    resultChan,     \* the result queue: the buffered channel, as a
                    \* sequence of DetectionResult.FrameID
    totalSent,      \* gc.totalSent
    totalReceived,  \* gc.totalReceived
    errors,         \* gc.errors
    \* ---- workerLoop goroutines
    wkPc,           \* "off" | "select" | "detect" | "call" | "finish"
                    \* (the attempts are over) | "sent" (gc.totalSent
                    \* loaded) | "err" (before gc.errors++) | "errSt"
                    \* (gc.errors loaded) | "send" (detect returns a
                    \* result) | "recv" (result sent) | "recvSt"
                    \* (gc.totalReceived loaded) | "stopped"
    wkReg,          \* the counter value loaded by the ++ in progress, 0
                    \* when none is
    wkFrame,        \* frame: the Frame.ID received, 0 for none
    wkTry,          \* detect: the loop counter i
    wkResp,         \* detect: the last attempt's outcome "none" | "ok"
                    \* | "err" (err != nil) | "resperr" (resp.Error != "")
    \* ---- history
    taken,          \* frames the workers received from the frame queue
    calls,          \* per frame: client.Detect calls issued for it
    gaveUp,         \* frames whose last allowed attempt failed
    results,        \* frames detect returned a DetectionResult for
    slept,          \* per frame: the 100 ms sleeps detect has made for it
    yielded,        \* per frame: the DetectionResults detect has returned
                    \* for it
    placed          \* the FrameIDs of the results sent on the result
                    \* queue, in the order of the sends

dispatchVars == <<gcPc, gcCtxDone, gcConn, gcClient, resultChan, totalSent,
                 totalReceived, errors, wkReg, wkPc, wkFrame,
                  wkTry, wkResp, taken, calls, gaveUp, results, slept,
                  yielded, placed>>

VARIABLES
    \* ---- UpdateAIParams and ReloadModel calls, per calling request
    adPc,           \* "idle" | "rpc" (client.UpdateParams or
                    \* client.ReloadModel in flight) | "done" (returned)
    adKind,         \* "none" | "update" (UpdateAIParams) | "reload"
                    \* (ReloadModel)
    adResp,         \* what the call returned: the error and the response's
                    \* Success and Message
    \* ---- history
    adNoConn        \* gc.conn was nil when the call began

adminVars == <<adPc, adKind, adResp, adNoConn>>

VARIABLES
    \* ---- the goroutines main wires to the result queue
    paPc,           \* processAlerts: "spawned" | "returned"
    blPc,           \* broadcastLoop: "range" (in its loop over the result
                    \* queue) | "returned"
    alPc,           \* alertLoop: "range" (in its loop over the alert
                    \* queue) | "returned"
    clPc,           \* AlertFilter.cleanupLoop: "range" (in its loop over
                    \* ticker.C) | "returned"
    \* ---- history
    framesBroadcast,    \* the FrameIDs broadcastLoop has passed to
                        \* Hub.Broadcast as "frame" events
    pdSeen          \* the FrameIDs of the results passed to
                    \* AlertFilter.ProcessDetections

pipelineVars == <<paPc, blPc, alPc, clPc, framesBroadcast, pdSeen>>

VARIABLES
    \* ---- history of the AlertFilter.ProcessDetections calls
    pdLog,          \* per ShouldAlert call made by ProcessDetections, in
                    \* order: the detection, the clock and the result
    pdAlerts        \* the AlertMessages returned, each with the size of the
                    \* frame of its result

alertsVars == <<pdLog, pdAlerts>>

VARIABLES
    \* ---- the decoder's stdout and readJPEGFrame's reader, byte by byte
    scStream,       \* the bytes the decoder has written to its stdout
    scClosed,       \* the decoder has ended: the reader meets io.EOF after
                    \* the last byte
    scPos,          \* the reader's position: the index of the next byte
                    \* ReadByte returns
    scPc,           \* the capture loop: "scan" | "exited" (returned on
                    \* io.EOF)
    scErrors,       \* vc.errors
    scFrames        \* history: per readJPEGFrame call that returned a
                    \* frame, its bytes and the reader's position before
                    \* and afterwards

scannerVars == <<scStream, scClosed, scPos, scPc, scErrors, scFrames>>

VARIABLES
    \* ---- the HTTP handlers that write the AI, Filter and Training
    \* ---- sections of the Config
    config,         \* the three sections as the handlers read and write
                    \* them, thresholds in percent, the window in seconds
    rqPc,           \* per request: "idle" | "apply" (validated, Update*
                    \* not yet called) | "forward" (UpdateAIParams in
                    \* flight) | "done" (response written)
    rqKind,         \* "none" | "ai" | "filter" | "training"
    rqReq,          \* the request body bound by ShouldBindJSON
    rqLocal,        \* the handler's copy of the section (aiConfig,
                    \* filterConfig, trainingConfig), inside a Config
    rqStatus,       \* the HTTP status written: 0 (none yet) | 200 | 400
    rqMsg,          \* the field the error names, or what is appended to
                    \* the success message
    \* ---- UpdateVideoConfig
    videoCfg,       \* the Video section of the Config
    uvPc,           \* per request: "idle" | "restart" (UpdateVideo done,
                    \* Restart called) | "done" (response written)
    uvStatus,       \* the HTTP status written: 0 (none yet) | 200 | 400
                    \* | 500
    \* ---- history
    uvBefore        \* per request: the Video section, vc.isOpen and vc.cmd
                    \* when the handler was entered

handlerVars == <<config, rqPc, rqKind, rqReq, rqLocal, rqStatus, rqMsg,
                 videoCfg, uvPc, uvStatus, uvBefore>>

vars == <<filterVars, hubVars, captureVars, dispatchVars, adminVars,
          pipelineVars, alertsVars, scannerVars, handlerVars>>

-----------------------------------------------------------------------------
(* Bounds of the model *)

MaxTime == 2          \* the clock runs from 0 to MaxTime
MaxCalls == 3         \* ShouldAlert calls that return true

Callers == {"c1", "c2"}   \* goroutines calling ShouldAlert concurrently

MaxMsgs == 2          \* Broadcast calls
BroadcastCap == 1     \* capacity of h.broadcast (256 in NewHub)
SendCap == 1          \* capacity of client.send (256 in HandleWebSocket)

Clients == {"k1", "k2"}   \* consumer connections

MaxFrames == 2        \* frames parsed
FrameChanCap == 1     \* capacity of the frame queue (30 in main)

Restarters == {"r1", "r2"}   \* requests calling Restart concurrently

\* DefaultConfig().Video: source_type and fps
DefaultVideo == [type |-> "rtsp", fps |-> 30]

ResultChanCap == 1    \* capacity of the result queue (30 in main)

Workers == {"w1", "w2"}   \* workerLoop goroutines (workerCount is 4)

MoreWorkers == {"w3", "w4"}   \* the goroutines a further Start call spawns

MaxTaken == 3         \* frames sent to the dispatch engine

Admins == {"a1", "a2"}    \* requests calling UpdateAIParams or ReloadModel

MaxResults == 4       \* results passed to ProcessDetections

MaxStream == 8        \* bytes the decoder writes
FrameLimit == 5       \* the frame size limit in bytes (10 MB in
                      \* readJPEGFrame)

Requesters == {"q1", "q2"}   \* HTTP requests served concurrently

-----------------------------------------------------------------------------
(* Alert filter: src/unnamed/part_001 (package filter) *)

Box(x1, y1, x2, y2) == [x1 |-> x1, y1 |-> y1, x2 |-> x2, y2 |-> y2]

\* Boxes the detections are drawn from: overlapping pairs with IoU 2/3,
\* 3/4 and exactly 1/2.
Boxes == { Box(0, 0, 2, 2), Box(0, 0, 2, 3), Box(0, 0, 2, 4) }

\* the detections passed to ShouldAlert: every box flagged uncertain, and
\* one detection that is not
Detections == [box : Boxes, uncertain : {TRUE}]
                \cup {[box |-> Box(0, 0, 2, 2), uncertain |-> FALSE]}

NoDetection == [box |-> Box(0, 0, 2, 2), uncertain |-> FALSE]

\* Filter configurations UpdateFilterConfig accepts: threshold in [0, 1]
\* (here in percent), window in 1..120 seconds.
FilterConfigs == { [thr |-> 50, window |-> 2, enable |-> TRUE],
                   [thr |-> 70, window |-> 1, enable |-> TRUE],
                   [thr |-> 50, window |-> 2, enable |-> FALSE] }

\* DefaultConfig().Filter, with the window scaled to the model's clock
DefaultFilter == [thr |-> 50, window |-> 2, enable |-> TRUE]

max32(a, b) == IF a > b THEN a ELSE b

min32(a, b) == IF a < b THEN a ELSE b

\* an IoU whose union counts the intersection twice
calculateIoUNoSubtract(a, b) ==
    LET x1 == max32(a.x1, b.x1)
        y1 == max32(a.y1, b.y1)
        x2 == min32(a.x2, b.x2)
        y2 == min32(a.y2, b.y2)
        intersection == (x2 - x1) * (y2 - y1)
        areaA == (a.x2 - a.x1) * (a.y2 - a.y1)
        areaB == (b.x2 - b.x1) * (b.y2 - b.y1)
        union == areaA + areaB
    IN  IF x2 <= x1 \/ y2 <= y1 THEN <<0, 1>>
        ELSE IF union <= 0 THEN <<0, 1>>
        ELSE <<intersection, union>>

\* calculateIoU: the quotient intersection / union is kept as the pair
\* <<intersection, union>>; 0.0 is <<0, 1>>.
calculateIoU(a, b) ==
    LET x1 == max32(a.x1, b.x1)
        y1 == max32(a.y1, b.y1)
        x2 == min32(a.x2, b.x2)
        y2 == min32(a.y2, b.y2)
        intersection == (x2 - x1) * (y2 - y1)
        areaA == (a.x2 - a.x1) * (a.y2 - a.y1)
        areaB == (b.x2 - b.x1) * (b.y2 - b.y1)
        union == areaA + areaB - intersection
    IN  IF x2 <= x1 \/ y2 <= y1 THEN <<0, 1>>
        ELSE IF union <= 0 THEN <<0, 1>>
        ELSE <<intersection, union>>

\* iou > filterConfig.SpatialIoUThreshold, the threshold in percent
IoUExceeds(iou, thr) == iou[1] * 100 > thr * iou[2]

\* expireTime := time.Now().Add(-TimeWindowSeconds * time.Second)
ExpireTime(t, cfg) == t - cfg.window

\* alert.Timestamp.After(expireTime)
SurvivesLate(alert, expireTime) == alert.ts >= expireTime

SurvivesEarly(alert, expireTime) == alert.ts > expireTime + 1

Survives(alert, expireTime) == alert.ts > expireTime

\* the purge loops of cleanup and ShouldAlert: the entries that survive,
\* in their order
RECURSIVE PurgeExpired(_, _)
PurgeExpired(alerts, expireTime) ==
    IF alerts = <<>> THEN <<>>
    ELSE IF Survives(Head(alerts), expireTime)
         THEN <<Head(alerts)>> \o PurgeExpired(Tail(alerts), expireTime)
         ELSE PurgeExpired(Tail(alerts), expireTime)

\* the overlap loop of ShouldAlert: some surviving entry suppresses det
Suppressed(det, alerts, cfg) ==
    \E i \in 1..Len(alerts) :
        IoUExceeds(calculateIoU(det.box, alerts[i].box), cfg.thr)

\* the entries the overlap loop compares det against: all of them up to the
\* first one that suppresses
Compared(det, alerts, cfg) ==
    { i \in 1..Len(alerts) :
        \A j \in 1..(i - 1) :
            ~IoUExceeds(calculateIoU(det.box, alerts[j].box), cfg.thr) }

SeqToSet(s) == { s[i] : i \in 1..Len(s) }

\* Config.UpdateFilter: the Filter section is replaced under the write lock
UpdateFilter(cfg) ==
    /\ cfg # filterCfg
    /\ filterCfg' = cfg
    /\ saStale' = [c \in Callers |-> saPc[c] = "lock"]
    /\ saLog' = <<>>
    /\ UNCHANGED <<now, activeAlerts, saPc, saDet, saCfg, saLast>>
    /\ UNCHANGED <<hubVars, captureVars, dispatchVars, adminVars,
                   pipelineVars, alertsVars, scannerVars, handlerVars>>

\* the greatest age (now - Timestamp) among the entries det is compared
\* against, -1 when there is none
RECURSIVE MaxAge(_, _)
MaxAge(tss, t) ==
    IF tss = {} THEN -1
    ELSE LET x == CHOOSE y \in tss : TRUE
         IN  max32(t - x, MaxAge(tss \ {x}, t))

\* a ShouldAlert that does not look at detection.IsUncertain
ShouldAlertBeginAnyDetection(c, det) ==
    /\ saPc[c] = "idle"
    /\ Len(saLog) < MaxCalls
    /\ IF ~filterCfg.enable
       THEN /\ saLast' = [res |-> FALSE, maxAge |-> -1,
                          window |-> filterCfg.window,
                          uncertain |-> det.uncertain,
                          enable |-> filterCfg.enable]
            /\ UNCHANGED <<saPc, saDet, saCfg>>
       ELSE /\ saPc' = [saPc EXCEPT ![c] = "lock"]
            /\ saDet' = [saDet EXCEPT ![c] = det]
            /\ saCfg' = [saCfg EXCEPT ![c] = filterCfg]
            /\ UNCHANGED saLast
    /\ UNCHANGED <<now, filterCfg, activeAlerts, saStale, saLog>>
    /\ UNCHANGED <<hubVars, captureVars, dispatchVars, adminVars,
                   pipelineVars, alertsVars, scannerVars, handlerVars>>

\* ShouldAlert, lines 78-88: the configuration is read before the lock is
\* taken; a disabled push or a certain detection returns false at once.
ShouldAlertBegin(c, det) ==
    /\ saPc[c] = "idle"
    /\ Len(saLog) < MaxCalls
    /\ IF ~filterCfg.enable \/ ~det.uncertain
       THEN /\ saLast' = [res |-> FALSE, maxAge |-> -1,
                          window |-> filterCfg.window,
                          uncertain |-> det.uncertain,
                          enable |-> filterCfg.enable]
            /\ UNCHANGED <<saPc, saDet, saCfg>>
       ELSE /\ saPc' = [saPc EXCEPT ![c] = "lock"]
            /\ saDet' = [saDet EXCEPT ![c] = det]
            /\ saCfg' = [saCfg EXCEPT ![c] = filterCfg]
            /\ UNCHANGED saLast
    /\ UNCHANGED <<now, filterCfg, activeAlerts, saStale, saLog>>
    /\ UNCHANGED <<hubVars, captureVars, dispatchVars, adminVars,
                   pipelineVars, alertsVars, scannerVars, handlerVars>>

\* a ShouldAlert that, when it suppresses, stamps the suppressing entries
\* with the current time
ShouldAlertLockedRefreshing(c, d) ==
    /\ saPc[c] = "lock"
    /\ now + d <= MaxTime
    /\ LET det == saDet[c]
           cfg == saCfg[c]
           validAlerts == PurgeExpired(activeAlerts, ExpireTime(now, cfg))
           compared == { validAlerts[i].ts : i \in Compared(det, validAlerts, cfg) }
           last(res) == [res |-> res, maxAge |-> MaxAge(compared, now),
                         window |-> cfg.window,
                         uncertain |-> det.uncertain, enable |-> cfg.enable]
       IN  IF Suppressed(det, validAlerts, cfg)
           THEN /\ activeAlerts' =
                       [i \in 1..Len(validAlerts) |->
                           IF IoUExceeds(calculateIoU(det.box,
                                                      validAlerts[i].box),
                                         cfg.thr)
                           THEN [validAlerts[i] EXCEPT !.ts = now]
                           ELSE validAlerts[i]]
                /\ now' = now
                /\ saLast' = last(FALSE)
                /\ saLog' = IF saStale[c] THEN <<>> ELSE saLog
           ELSE /\ activeAlerts' =
                       Append(validAlerts, [box |-> det.box, ts |-> now + d])
                /\ now' = now + d
                /\ saLast' = last(TRUE)
                /\ saLog' = IF saStale[c] THEN <<>>
                            ELSE Append(saLog, [box |-> det.box, t |-> now])
    /\ saPc' = [saPc EXCEPT ![c] = "idle"]
    /\ saDet' = [saDet EXCEPT ![c] = NoDetection]
    /\ saCfg' = [saCfg EXCEPT ![c] = DefaultFilter]
    /\ saStale' = [saStale EXCEPT ![c] = FALSE]
    /\ UNCHANGED <<filterCfg>>
    /\ UNCHANGED <<hubVars, captureVars, dispatchVars, adminVars,
                   pipelineVars, alertsVars, scannerVars, handlerVars>>

\* ShouldAlert, lines 90-136, under f.mu: purge, compare, append. The clock
\* is read twice (lines 98 and 129) and may advance by d in between.
ShouldAlertLocked(c, d) ==
    /\ saPc[c] = "lock"
    /\ now + d <= MaxTime
    /\ LET det == saDet[c]
           cfg == saCfg[c]
           validAlerts == PurgeExpired(activeAlerts, ExpireTime(now, cfg))
           compared == { validAlerts[i].ts : i \in Compared(det, validAlerts, cfg) }
           last(res) == [res |-> res, maxAge |-> MaxAge(compared, now),
                         window |-> cfg.window,
                         uncertain |-> det.uncertain, enable |-> cfg.enable]
       IN  IF Suppressed(det, validAlerts, cfg)
           THEN /\ activeAlerts' = validAlerts
                /\ now' = now
                /\ saLast' = last(FALSE)
                /\ saLog' = IF saStale[c] THEN <<>> ELSE saLog
           ELSE /\ activeAlerts' =
                       Append(validAlerts, [box |-> det.box, ts |-> now + d])
                /\ now' = now + d
                /\ saLast' = last(TRUE)
                /\ saLog' = IF saStale[c] THEN <<>>
                            ELSE Append(saLog, [box |-> det.box, t |-> now])
    /\ saPc' = [saPc EXCEPT ![c] = "idle"]
    /\ saDet' = [saDet EXCEPT ![c] = NoDetection]
    /\ saCfg' = [saCfg EXCEPT ![c] = DefaultFilter]
    /\ saStale' = [saStale EXCEPT ![c] = FALSE]
    /\ UNCHANGED <<filterCfg>>
    /\ UNCHANGED <<hubVars, captureVars, dispatchVars, adminVars,
                   pipelineVars, alertsVars, scannerVars, handlerVars>>

\* a sweep that uses the configuration the filter was constructed with
cleanupConstructed ==
    /\ PurgeExpired(activeAlerts, ExpireTime(now, DefaultFilter))
           # activeAlerts
    /\ activeAlerts' =
           PurgeExpired(activeAlerts, ExpireTime(now, DefaultFilter))
    /\ UNCHANGED <<now, filterCfg, saPc, saDet, saCfg, saStale, saLast,
                   saLog>>
    /\ UNCHANGED <<hubVars, captureVars, dispatchVars, adminVars,
                   pipelineVars, alertsVars, scannerVars, handlerVars>>

\* cleanup (the body of cleanupLoop's ticker), under f.mu: the
\* configuration is read inside the lock
cleanup ==
    /\ PurgeExpired(activeAlerts, ExpireTime(now, filterCfg)) # activeAlerts
    /\ activeAlerts' = PurgeExpired(activeAlerts, ExpireTime(now, filterCfg))
    /\ UNCHANGED <<now, filterCfg, saPc, saDet, saCfg, saStale, saLast,
                   saLog>>
    /\ UNCHANGED <<hubVars, captureVars, dispatchVars, adminVars,
                   pipelineVars, alertsVars, scannerVars, handlerVars>>

\* the wall clock advances
Tick ==
    /\ now < MaxTime
    /\ now' = now + 1
    /\ UNCHANGED <<filterCfg, activeAlerts, saPc, saDet, saCfg, saStale,
                   saLast, saLog>>
    /\ UNCHANGED <<hubVars, captureVars, dispatchVars, adminVars,
                   pipelineVars, alertsVars, scannerVars, handlerVars>>

FilterInit ==
    /\ now = 0
    /\ filterCfg = DefaultFilter
    /\ activeAlerts = <<>>
    /\ saPc = [c \in Callers |-> "idle"]
    /\ saDet = [c \in Callers |-> NoDetection]
    /\ saCfg = [c \in Callers |-> DefaultFilter]
    /\ saLast = [res |-> FALSE, maxAge |-> -1, window |-> DefaultFilter.window,
                 uncertain |-> NoDetection.uncertain,
                 enable |-> DefaultFilter.enable]
    /\ saStale = [c \in Callers |-> FALSE]
    /\ saLog = <<>>

FilterNext ==
    \/ \E cfg \in FilterConfigs : UpdateFilter(cfg)
    \/ \E c \in Callers, det \in Detections : ShouldAlertBegin(c, det)
    \/ \E c \in Callers, d \in {0, 1} : ShouldAlertLocked(c, d)
    \/ cleanup
    \/ Tick

-----------------------------------------------------------------------------
(* Broadcast hub: src/unnamed/part_002 (package ws) *)

\* the zero value of Run's locals client and message while none is held
NoArg == 0

\* close(client.send) for every client in cs; closing a closed channel panics
CloseSend(cs) ==
    /\ sendClosed' = [c \in Clients |-> sendClosed[c] \/ c \in cs]
    /\ hubPanic' = (hubPanic \/ \E c \in cs : sendClosed[c])

\* a Broadcast that waits for room in h.broadcast instead of dropping
BroadcastBlocking ==
    /\ bcastCount < MaxMsgs
    /\ Len(hubBroadcast) < BroadcastCap
    /\ bcastCount' = bcastCount + 1
    /\ hubBroadcast' = Append(hubBroadcast, bcastCount + 1)
    /\ UNCHANGED <<hubCtx, hubClients, hubPc, hubArg, stopPc, hubPanic, hPc,
                   send, sendClosed, cCtx, wPc, wMsg, bcastDropped,
                   admittedAt, received, dequeued>>
    /\ UNCHANGED <<filterVars, captureVars, dispatchVars, adminVars,
                   pipelineVars, alertsVars, scannerVars, handlerVars>>

\* Hub.Broadcast: a non-blocking send to h.broadcast; the event is dropped
\* when the channel is full
Broadcast ==
    /\ bcastCount < MaxMsgs
    /\ bcastCount' = bcastCount + 1
    /\ IF Len(hubBroadcast) < BroadcastCap
       THEN /\ hubBroadcast' = Append(hubBroadcast, bcastCount + 1)
            /\ UNCHANGED bcastDropped
       ELSE /\ bcastDropped' = bcastDropped \cup {bcastCount + 1}
            /\ UNCHANGED hubBroadcast
    /\ UNCHANGED <<hubCtx, hubClients, hubPc, hubArg, stopPc, hubPanic, hPc,
                   send, sendClosed, cCtx, wPc, wMsg, admittedAt, received,
                   dequeued>>
    /\ UNCHANGED <<filterVars, captureVars, dispatchVars, adminVars,
                   pipelineVars, alertsVars, scannerVars, handlerVars>>

\* HandleWebSocket, lines 262-279: a connection is accepted and its Client made
HandlerAccept(c) ==
    /\ hPc[c] = "new"
    /\ hPc' = [hPc EXCEPT ![c] = "register"]
    /\ UNCHANGED <<hubCtx, hubClients, hubBroadcast, hubPc, hubArg, stopPc,
                   hubPanic, send, sendClosed, cCtx, wPc, wMsg, bcastCount,
                   bcastDropped, admittedAt, received, dequeued>>
    /\ UNCHANGED <<filterVars, captureVars, dispatchVars, adminVars,
                   pipelineVars, alertsVars, scannerVars, handlerVars>>

\* Run, case client := <-h.register, with the handler's send at line 281:
\* the handler goes on to start writePump and to read
HubRecvRegister(c) ==
    /\ hubPc = "select"
    /\ hPc[c] = "register"
    /\ hubPc' = "register"
    /\ hubArg' = c
    /\ hPc' = [hPc EXCEPT ![c] = "read"]
    /\ wPc' = [wPc EXCEPT ![c] = "run"]
    /\ UNCHANGED <<hubCtx, hubClients, hubBroadcast, stopPc, hubPanic, send,
                   sendClosed, cCtx, wMsg, bcastCount, bcastDropped,
                   admittedAt, received, dequeued>>
    /\ UNCHANGED <<filterVars, captureVars, dispatchVars, adminVars,
                   pipelineVars, alertsVars, scannerVars, handlerVars>>

\* Run, lines 104-106, under h.mu.Lock
HubRegister ==
    /\ hubPc = "register"
    /\ hubClients' = hubClients \cup {hubArg}
    /\ admittedAt' = [admittedAt EXCEPT ![hubArg] = bcastCount]
    /\ hubPc' = "select"
    /\ hubArg' = NoArg
    /\ UNCHANGED <<hubCtx, hubBroadcast, stopPc, hubPanic, hPc, send,
                   sendClosed, cCtx, wPc, wMsg, bcastCount, bcastDropped,
                   received, dequeued>>
    /\ UNCHANGED <<filterVars, captureVars, dispatchVars, adminVars,
                   pipelineVars, alertsVars, scannerVars, handlerVars>>

\* HandleWebSocket, lines 294-313: conn.Read ends the read loop when the peer
\* closes the connection or the client's context is cancelled; the deferred
\* unregister send (line 289) then waits for Run
HandlerReadEnds(c) ==
    /\ hPc[c] = "read"
    /\ hPc' = [hPc EXCEPT ![c] = "unregister"]
    /\ UNCHANGED <<hubCtx, hubClients, hubBroadcast, hubPc, hubArg, stopPc,
                   hubPanic, send, sendClosed, cCtx, wPc, wMsg, bcastCount,
                   bcastDropped, admittedAt, received, dequeued>>
    /\ UNCHANGED <<filterVars, captureVars, dispatchVars, adminVars,
                   pipelineVars, alertsVars, scannerVars, handlerVars>>

\* Run, case client := <-h.unregister, with the handler's send at line 289:
\* the handler returns and its deferred cancel() (line 271) runs
HubRecvUnregister(c) ==
    /\ hubPc = "select"
    /\ hPc[c] = "unregister"
    /\ hubPc' = "unregister"
    /\ hubArg' = c
    /\ hPc' = [hPc EXCEPT ![c] = "done"]
    /\ cCtx' = [cCtx EXCEPT ![c] = TRUE]
    /\ UNCHANGED <<hubCtx, hubClients, hubBroadcast, stopPc, hubPanic, send,
                   sendClosed, wPc, wMsg, bcastCount, bcastDropped,
                   admittedAt, received, dequeued>>
    /\ UNCHANGED <<filterVars, captureVars, dispatchVars, adminVars,
                   pipelineVars, alertsVars, scannerVars, handlerVars>>

\* an unregister that closes the channel without looking at h.clients
HubUnregisterUnchecked ==
    /\ hubPc = "unregister"
    /\ hubClients' = hubClients \ {hubArg}
    /\ CloseSend({hubArg})
    /\ hubPc' = "select"
    /\ hubArg' = NoArg
    /\ UNCHANGED <<hubCtx, hubBroadcast, stopPc, hPc, send, cCtx, wPc, wMsg,
                   bcastCount, bcastDropped, admittedAt, received, dequeued>>
    /\ UNCHANGED <<filterVars, captureVars, dispatchVars, adminVars,
                   pipelineVars, alertsVars, scannerVars, handlerVars>>

\* Run, lines 109-114, under h.mu.Lock
HubUnregister ==
    /\ hubPc = "unregister"
    /\ IF hubArg \in hubClients
       THEN /\ hubClients' = hubClients \ {hubArg}
            /\ CloseSend({hubArg})
       ELSE UNCHANGED <<hubClients, sendClosed, hubPanic>>
    /\ hubPc' = "select"
    /\ hubArg' = NoArg
    /\ UNCHANGED <<hubCtx, hubBroadcast, stopPc, hPc, send, cCtx, wPc, wMsg,
                   bcastCount, bcastDropped, admittedAt, received, dequeued>>
    /\ UNCHANGED <<filterVars, captureVars, dispatchVars, adminVars,
                   pipelineVars, alertsVars, scannerVars, handlerVars>>

\* Run, case message := <-h.broadcast
HubRecvBroadcast ==
    /\ hubPc = "select"
    /\ hubBroadcast # <<>>
    /\ hubPc' = "fanout"
    /\ hubArg' = Head(hubBroadcast)
    /\ hubBroadcast' = Tail(hubBroadcast)
    /\ dequeued' = Append(dequeued, Head(hubBroadcast))
    /\ UNCHANGED <<hubCtx, hubClients, stopPc, hubPanic, hPc, send,
                   sendClosed, cCtx, wPc, wMsg, bcastCount, bcastDropped,
                   admittedAt, received>>
    /\ UNCHANGED <<filterVars, captureVars, dispatchVars, adminVars,
                   pipelineVars, alertsVars, scannerVars, handlerVars>>

\* a room test that lets one message too many in
SendHasRoomOffByOne(c) == Len(send[c]) <= SendCap

\* the select of lines 119-125 for one client: the send succeeds when the
\* channel has room
SendHasRoom(c) == Len(send[c]) < SendCap

\* Run, lines 117-127, under h.mu.RLock: one pass over h.clients; a client
\* whose channel is full is closed and deleted
HubFanOut ==
    /\ hubPc = "fanout"
    /\ LET full == { c \in hubClients : ~SendHasRoom(c) }
       IN  /\ send' = [c \in Clients |->
                          IF c \in hubClients \ full
                          THEN Append(send[c], hubArg) ELSE send[c]]
           /\ hubClients' = hubClients \ full
           /\ sendClosed' = [c \in Clients |-> sendClosed[c] \/ c \in full]
           /\ hubPanic' = (hubPanic \/ \E c \in hubClients : sendClosed[c])
    /\ hubPc' = "select"
    /\ hubArg' = NoArg
    /\ UNCHANGED <<hubCtx, hubBroadcast, stopPc, hPc, cCtx, wPc, wMsg,
                   bcastCount, bcastDropped, admittedAt, received, dequeued>>
    /\ UNCHANGED <<filterVars, captureVars, dispatchVars, adminVars,
                   pipelineVars, alertsVars, scannerVars, handlerVars>>

\* Run, case <-h.ctx.Done(): the select may take it once the context is
\* cancelled
HubRunExit ==
    /\ hubPc = "select"
    /\ hubCtx
    /\ hubPc' = "exited"
    /\ UNCHANGED <<hubCtx, hubClients, hubBroadcast, hubArg, stopPc,
                   hubPanic, hPc, send, sendClosed, cCtx, wPc, wMsg,
                   bcastCount, bcastDropped, admittedAt, received, dequeued>>
    /\ UNCHANGED <<filterVars, captureVars, dispatchVars, adminVars,
                   pipelineVars, alertsVars, scannerVars, handlerVars>>

\* Hub.Stop, line 134: h.cancel()
StopCancel ==
    /\ stopPc = "idle"
    /\ hubCtx' = TRUE
    /\ stopPc' = "lock"
    /\ UNCHANGED <<hubClients, hubBroadcast, hubPc, hubArg, hubPanic, hPc,
                   send, sendClosed, cCtx, wPc, wMsg, bcastCount,
                   bcastDropped, admittedAt, received, dequeued>>
    /\ UNCHANGED <<filterVars, captureVars, dispatchVars, adminVars,
                   pipelineVars, alertsVars, scannerVars, handlerVars>>

\* Hub.Stop, lines 135-141, under h.mu.Lock: every client in h.clients is
\* cancelled and closed and the map replaced by an empty one
StopLocked ==
    /\ stopPc = "lock"
    /\ cCtx' = [c \in Clients |-> cCtx[c] \/ c \in hubClients]
    /\ CloseSend(hubClients)
    /\ hubClients' = {}
    /\ stopPc' = "done"
    /\ UNCHANGED <<hubCtx, hubBroadcast, hubPc, hubArg, hPc, send, wPc, wMsg,
                   bcastCount, bcastDropped, admittedAt, received, dequeued>>
    /\ UNCHANGED <<filterVars, captureVars, dispatchVars, adminVars,
                   pipelineVars, alertsVars, scannerVars, handlerVars>>

\* a writePump that leaves the message it takes in the channel
WritePumpRecvPeeking(c) ==
    /\ wPc[c] = "run"
    /\ send[c] # <<>>
    /\ wPc' = [wPc EXCEPT ![c] = "write"]
    /\ wMsg' = [wMsg EXCEPT ![c] = Head(send[c])]
    /\ UNCHANGED <<hubCtx, hubClients, hubBroadcast, hubPc, hubArg, stopPc,
                   hubPanic, hPc, send, sendClosed, cCtx, bcastCount,
                   bcastDropped, admittedAt, received, dequeued>>
    /\ UNCHANGED <<filterVars, captureVars, dispatchVars, adminVars,
                   pipelineVars, alertsVars, scannerVars, handlerVars>>

\* writePump, case message, ok := <-c.send with ok true
WritePumpRecv(c) ==
    /\ wPc[c] = "run"
    /\ send[c] # <<>>
    /\ wPc' = [wPc EXCEPT ![c] = "write"]
    /\ wMsg' = [wMsg EXCEPT ![c] = Head(send[c])]
    /\ send' = [send EXCEPT ![c] = Tail(send[c])]
    /\ UNCHANGED <<hubCtx, hubClients, hubBroadcast, hubPc, hubArg, stopPc,
                   hubPanic, hPc, sendClosed, cCtx, bcastCount, bcastDropped,
                   admittedAt, received, dequeued>>
    /\ UNCHANGED <<filterVars, captureVars, dispatchVars, adminVars,
                   pipelineVars, alertsVars, scannerVars, handlerVars>>

\* writePump, lines 331-337: conn.Write succeeds
WritePumpWrite(c) ==
    /\ wPc[c] = "write"
    /\ received' = [received EXCEPT ![c] = Append(received[c], wMsg[c])]
    /\ wPc' = [wPc EXCEPT ![c] = "run"]
    /\ wMsg' = [wMsg EXCEPT ![c] = NoArg]
    /\ UNCHANGED <<hubCtx, hubClients, hubBroadcast, hubPc, hubArg, stopPc,
                   hubPanic, hPc, send, sendClosed, cCtx, bcastCount,
                   bcastDropped, admittedAt, dequeued>>
    /\ UNCHANGED <<filterVars, captureVars, dispatchVars, adminVars,
                   pipelineVars, alertsVars, scannerVars, handlerVars>>

\* writePump, lines 335-337: conn.Write fails (the 10 s timeout when the
\* peer has stopped reading, a broken connection, the cancelled context) and
\* writePump returns
WritePumpWriteFails(c) ==
    /\ wPc[c] = "write"
    /\ wPc' = [wPc EXCEPT ![c] = "exited"]
    /\ wMsg' = [wMsg EXCEPT ![c] = NoArg]
    /\ UNCHANGED <<hubCtx, hubClients, hubBroadcast, hubPc, hubArg, stopPc,
                   hubPanic, hPc, send, sendClosed, cCtx, bcastCount,
                   bcastDropped, admittedAt, received, dequeued>>
    /\ UNCHANGED <<filterVars, captureVars, dispatchVars, adminVars,
                   pipelineVars, alertsVars, scannerVars, handlerVars>>

\* writePump returns: case <-c.ctx.Done(), or c.send closed and drained
WritePumpExit(c) ==
    /\ wPc[c] = "run"
    /\ cCtx[c] \/ (sendClosed[c] /\ send[c] = <<>>)
    /\ wPc' = [wPc EXCEPT ![c] = "exited"]
    /\ UNCHANGED <<hubCtx, hubClients, hubBroadcast, hubPc, hubArg, stopPc,
                   hubPanic, hPc, send, sendClosed, cCtx, wMsg, bcastCount,
                   bcastDropped, admittedAt, received, dequeued>>
    /\ UNCHANGED <<filterVars, captureVars, dispatchVars, adminVars,
                   pipelineVars, alertsVars, scannerVars, handlerVars>>

HubInit ==
    /\ hubCtx = FALSE
    /\ hubClients = {}
    /\ hubBroadcast = <<>>
    /\ hubPc = "select"
    /\ hubArg = NoArg
    /\ stopPc = "idle"
    /\ hubPanic = FALSE
    /\ hPc = [c \in Clients |-> "new"]
    /\ send = [c \in Clients |-> <<>>]
    /\ sendClosed = [c \in Clients |-> FALSE]
    /\ cCtx = [c \in Clients |-> FALSE]
    /\ wPc = [c \in Clients |-> "none"]
    /\ wMsg = [c \in Clients |-> NoArg]
    /\ bcastCount = 0
    /\ bcastDropped = {}
    /\ admittedAt = [c \in Clients |-> -1]
    /\ received = [c \in Clients |-> <<>>]
    /\ dequeued = <<>>

HubNext ==
    \/ Broadcast
    \/ \E c \in Clients : HandlerAccept(c)
    \/ \E c \in Clients : HubRecvRegister(c)
    \/ HubRegister
    \/ \E c \in Clients : HandlerReadEnds(c)
    \/ \E c \in Clients : HubRecvUnregister(c)
    \/ HubUnregister
    \/ HubRecvBroadcast
    \/ HubFanOut
    \/ HubRunExit
    \/ StopCancel
    \/ StopLocked
    \/ \E c \in Clients : WritePumpRecv(c)
    \/ \E c \in Clients : WritePumpWrite(c)
    \/ \E c \in Clients : WritePumpWriteFails(c)
    \/ \E c \in Clients : WritePumpExit(c)


-----------------------------------------------------------------------------
(* Video capture: src/unnamed/part_000 (package pipeline) *)

\* the goroutines that call Start: main, and each Restart call
Starters == {"main"} \cup Restarters

Cmd(state, pipeOpen) == [state |-> state, pipeOpen |-> pipeOpen]

\* a Start that does not look at vc.isOpen
AlreadyOpenIgnored == FALSE

\* Start, line 76: if vc.isOpen
AlreadyOpen == vcIsOpen

\* Start, what it returns: nil when already open (line 77) or when the
\* command was started (line 141), the error of lines 124 or 129 otherwise
StartError(ok) ==
    IF AlreadyOpen \/ (ok /\ vcCtx \notin ctxDone) THEN "nil" ELSE "err"

\* Start, lines 73-142, under vc.mu, called by s: nothing when already
\* open; otherwise a command bound to vc.ctx is made and started (ok: ffmpeg
\* can be started; a command bound to a cancelled context is not started),
\* and on success isOpen is set and captureLoop spawned
StartBody(s, ok) ==
    IF AlreadyOpen
    THEN UNCHANGED <<vcIsOpen, vcCmd, vcStdout, cmds, lpPc, life, lifeIds,
                     srcOf>>
    ELSE LET started == ok /\ vcCtx \notin ctxDone
         IN  /\ cmds' = [cmds EXCEPT ![s] = Cmd(IF started THEN "running"
                                                ELSE "failed", started)]
             /\ srcOf' = [srcOf EXCEPT ![s] = videoCfg]
             /\ vcCmd' = s
             /\ vcStdout' = s
             /\ vcIsOpen' = started
             /\ lpPc' = IF started THEN [lpPc EXCEPT ![s] = "init"] ELSE lpPc
             /\ life' = IF started THEN life + 1 ELSE life
             /\ lifeIds' = IF started THEN <<>> ELSE lifeIds

\* Stop, lines 146-168, under vc.mu: nothing when not open; otherwise
\* vc.cancel(), the process of vc.cmd killed and waited for, vc.stdout
\* closed, both set to nil and isOpen cleared
StopBody ==
    IF ~vcIsOpen
    THEN UNCHANGED <<vcIsOpen, vcCmd, vcStdout, cmds, ctxDone>>
    ELSE /\ ctxDone' = ctxDone \cup {vcCancel}
         /\ cmds' = [p \in Starters |->
                       IF p = vcCmd /\ cmds[p].state \in {"running", "exited"}
                       THEN Cmd("reaped", FALSE)
                       ELSE IF p = vcStdout
                            THEN Cmd(cmds[p].state, FALSE)
                            ELSE cmds[p]]
         /\ vcCmd' = "nil"
         /\ vcStdout' = "nil"
         /\ vcIsOpen' = FALSE

\* main, line 60: videoCapture.Start()
MainStart(ok) ==
    /\ ~vcPanic
    /\ mainPc = "init"
    /\ StartBody("main", ok)
    /\ mainPc' = "started"
    /\ UNCHANGED <<vcCtx, vcCancel, ctxDone, vcPanic, frameID, frameChan,
                   rPc, lpReader, lpVal, parsed, restartedOpen, rErr,
                   againOk>>
    /\ UNCHANGED <<filterVars, hubVars, dispatchVars, adminVars,
                   pipelineVars, alertsVars, scannerVars, handlerVars>>

\* main, line 150: videoCapture.Stop()
MainStop ==
    /\ ~vcPanic
    /\ mainPc = "started"
    /\ StopBody
    /\ mainPc' = "stopped"
    /\ UNCHANGED <<vcCtx, vcCancel, vcPanic, frameID, frameChan, rPc, lpPc,
                   lpReader, lpVal, parsed, life, lifeIds, restartedOpen,
                   srcOf, rErr, againOk>>
    /\ UNCHANGED <<filterVars, hubVars, dispatchVars, adminVars,
                   pipelineVars, alertsVars, scannerVars, handlerVars>>

\* Start called once more, by any holder of the VideoCapture, after Stop
\* has returned and without Restart: vc.ctx is the one Stop cancelled
StartAfterStop(ok) ==
    /\ ~vcPanic
    /\ mainPc = "stopped"
    /\ StartBody("main", ok)
    /\ againOk' = ok
    /\ mainPc' = "again"
    /\ UNCHANGED <<vcCtx, vcCancel, ctxDone, vcPanic, frameID, frameChan,
                   rPc, lpReader, lpVal, parsed, restartedOpen, rErr>>
    /\ UNCHANGED <<filterVars, hubVars, dispatchVars, adminVars,
                   pipelineVars, alertsVars, scannerVars, handlerVars>>

\* Restart, line 172: vc.Stop()
RestartStop(t) ==
    /\ ~vcPanic
    /\ rPc[t] = "idle"
    /\ StopBody
    /\ rPc' = [rPc EXCEPT ![t] = "ctx"]
    /\ restartedOpen' = (restartedOpen \/ vcIsOpen)
    /\ UNCHANGED <<vcCtx, vcCancel, vcPanic, frameID, frameChan, mainPc,
                   lpPc, lpReader, lpVal, parsed, life, lifeIds, srcOf, rErr,
                   againOk>>
    /\ UNCHANGED <<filterVars, hubVars, dispatchVars, adminVars,
                   pipelineVars, alertsVars, scannerVars, handlerVars>>

\* Restart, line 175: context.WithCancel and the store to vc.ctx, outside
\* vc.mu
RestartNewCtx(t) ==
    /\ ~vcPanic
    /\ rPc[t] = "ctx"
    /\ vcCtx' = t
    /\ rPc' = [rPc EXCEPT ![t] = "cancel"]
    /\ UNCHANGED <<vcIsOpen, vcCancel, ctxDone, vcCmd, vcStdout, cmds,
                   vcPanic, frameID, frameChan, mainPc, lpPc, lpReader,
                   lpVal, parsed, life, lifeIds, restartedOpen, srcOf, rErr,
                   againOk>>
    /\ UNCHANGED <<filterVars, hubVars, dispatchVars, adminVars,
                   pipelineVars, alertsVars, scannerVars, handlerVars>>

\* Restart, line 175: the store to vc.cancel, outside vc.mu
RestartNewCancel(t) ==
    /\ ~vcPanic
    /\ rPc[t] = "cancel"
    /\ vcCancel' = t
    /\ rPc' = [rPc EXCEPT ![t] = "start"]
    /\ UNCHANGED <<vcIsOpen, vcCtx, ctxDone, vcCmd, vcStdout, cmds, vcPanic,
                   frameID, frameChan, mainPc, lpPc, lpReader, lpVal, parsed,
                   life, lifeIds, restartedOpen, srcOf, rErr, againOk>>
    /\ UNCHANGED <<filterVars, hubVars, dispatchVars, adminVars,
                   pipelineVars, alertsVars, scannerVars, handlerVars>>

\* Restart, line 177: vc.Start()
RestartStart(t, ok) ==
    /\ ~vcPanic
    /\ rPc[t] = "start"
    /\ StartBody(t, ok)
    /\ rErr' = [rErr EXCEPT ![t] = StartError(ok)]
    /\ rPc' = [rPc EXCEPT ![t] = "done"]
    /\ UNCHANGED <<vcCtx, vcCancel, ctxDone, vcPanic, frameID, frameChan,
                   mainPc, lpReader, lpVal, parsed, restartedOpen, againOk>>
    /\ UNCHANGED <<filterVars, hubVars, dispatchVars, adminVars,
                   pipelineVars, alertsVars, scannerVars, handlerVars>>

\* the decoder process ends by itself (end of stream, source lost)
ProcessExits(p) ==
    /\ ~vcPanic
    /\ cmds[p].state = "running"
    /\ cmds' = [cmds EXCEPT ![p].state = "exited"]
    /\ UNCHANGED <<vcIsOpen, vcCtx, vcCancel, ctxDone, vcCmd, vcStdout,
                   vcPanic, frameID, frameChan, mainPc, rPc, lpPc, lpReader,
                   lpVal, parsed, life, lifeIds, restartedOpen, srcOf, rErr,
                   againOk>>
    /\ UNCHANGED <<filterVars, hubVars, dispatchVars, adminVars,
                   pipelineVars, alertsVars, scannerVars, handlerVars>>

\* captureLoop, line 182: reader := bufio.NewReader(vc.stdout), read
\* without vc.mu when the goroutine first runs
LoopInit(p) ==
    /\ ~vcPanic
    /\ lpPc[p] = "init"
    /\ lpReader' = [lpReader EXCEPT ![p] = vcStdout]
    /\ lpPc' = [lpPc EXCEPT ![p] = "read"]
    /\ UNCHANGED <<vcIsOpen, vcCtx, vcCancel, ctxDone, vcCmd, vcStdout, cmds,
                   vcPanic, frameID, frameChan, mainPc, rPc, lpVal, parsed,
                   life, lifeIds, restartedOpen, srcOf, rErr, againOk>>
    /\ UNCHANGED <<filterVars, hubVars, dispatchVars, adminVars,
                   pipelineVars, alertsVars, scannerVars, handlerVars>>

\* a captureLoop that, at the end of the stream, starts the decoder again
\* and goes on reading
LoopReadRestarting(p, out) ==
    /\ ~vcPanic
    /\ lpPc[p] = "read"
    /\ IF vcCtx \in ctxDone
       THEN /\ out = "eof"
            /\ lpPc' = [lpPc EXCEPT ![p] = "exited"]
            /\ UNCHANGED <<vcPanic, parsed, cmds>>
       ELSE IF lpReader[p] = "nil"
       THEN /\ out = "err"
            /\ vcPanic' = TRUE
            /\ lpPc' = [lpPc EXCEPT ![p] = "exited"]
            /\ UNCHANGED <<parsed, cmds>>
       ELSE LET c == cmds[lpReader[p]]
            IN  CASE out = "frame" ->
                       /\ c.pipeOpen
                       /\ parsed < MaxFrames
                       /\ parsed' = parsed + 1
                       /\ lpPc' = [lpPc EXCEPT ![p] = "load"]
                       /\ UNCHANGED <<vcPanic, cmds>>
                  [] out = "err" ->
                       /\ c.state = "running" \/ ~c.pipeOpen
                       /\ UNCHANGED <<lpPc, vcPanic, parsed, cmds>>
                  [] out = "eof" ->
                       /\ c.state \in {"exited", "reaped"}
                       /\ cmds' = [cmds EXCEPT ![lpReader[p]] =
                                      Cmd("running", TRUE)]
                       /\ UNCHANGED <<lpPc, vcPanic, parsed>>
    /\ UNCHANGED <<vcIsOpen, vcCtx, vcCancel, ctxDone, vcCmd, vcStdout,
                   frameID, frameChan, mainPc, rPc, lpReader, lpVal, life,
                   lifeIds, restartedOpen, srcOf, rErr, againOk>>
    /\ UNCHANGED <<filterVars, hubVars, dispatchVars, adminVars,
                   pipelineVars, alertsVars, scannerVars, handlerVars>>

\* captureLoop, lines 187-207, one iteration up to the frame: the loop
\* returns when vc.ctx, as it is now, is cancelled; otherwise readJPEGFrame
\* returns a frame, an error other than io.EOF (the loop goes on) or io.EOF
\* (the loop returns); reading through a nil reader panics
LoopRead(p, out) ==
    /\ ~vcPanic
    /\ lpPc[p] = "read"
    /\ IF vcCtx \in ctxDone
       THEN /\ out = "eof"
            /\ lpPc' = [lpPc EXCEPT ![p] = "exited"]
            /\ UNCHANGED <<vcPanic, parsed>>
       ELSE IF lpReader[p] = "nil"
       THEN /\ out = "err"
            /\ vcPanic' = TRUE
            /\ lpPc' = [lpPc EXCEPT ![p] = "exited"]
            /\ UNCHANGED parsed
       ELSE LET c == cmds[lpReader[p]]
            IN  CASE out = "frame" ->
                       /\ c.pipeOpen
                       /\ parsed < MaxFrames
                       /\ parsed' = parsed + 1
                       /\ lpPc' = [lpPc EXCEPT ![p] = "load"]
                       /\ UNCHANGED vcPanic
                  [] out = "err" ->
                       /\ c.state = "running" \/ ~c.pipeOpen
                       /\ UNCHANGED <<lpPc, vcPanic, parsed>>
                  [] out = "eof" ->
                       /\ c.state \in {"exited", "reaped"}
                       /\ lpPc' = [lpPc EXCEPT ![p] = "exited"]
                       /\ UNCHANGED <<vcPanic, parsed>>
    /\ UNCHANGED <<vcIsOpen, vcCtx, vcCancel, ctxDone, vcCmd, vcStdout, cmds,
                   frameID, frameChan, mainPc, rPc, lpReader, lpVal, life,
                   lifeIds, restartedOpen, srcOf, rErr, againOk>>
    /\ UNCHANGED <<filterVars, hubVars, dispatchVars, adminVars,
                   pipelineVars, alertsVars, scannerVars, handlerVars>>

\* captureLoop, line 209: vc.frameID++, the load (no lock is held)
LoopLoad(p) ==
    /\ ~vcPanic
    /\ lpPc[p] = "load"
    /\ lpVal' = [lpVal EXCEPT ![p] = frameID]
    /\ lpPc' = [lpPc EXCEPT ![p] = "store"]
    /\ UNCHANGED <<vcIsOpen, vcCtx, vcCancel, ctxDone, vcCmd, vcStdout, cmds,
                   vcPanic, frameID, frameChan, mainPc, rPc, lpReader,
                   parsed, life, lifeIds, restartedOpen, srcOf, rErr,
                   againOk>>
    /\ UNCHANGED <<filterVars, hubVars, dispatchVars, adminVars,
                   pipelineVars, alertsVars, scannerVars, handlerVars>>

\* captureLoop, lines 209-218: vc.frameID++, the store, and the Frame made
\* with ID: vc.frameID
LoopStore(p) ==
    /\ ~vcPanic
    /\ lpPc[p] = "store"
    /\ frameID' = lpVal[p] + 1
    /\ lpVal' = [lpVal EXCEPT ![p] = lpVal[p] + 1]
    /\ lifeIds' = IF vcIsOpen THEN Append(lifeIds, lpVal[p] + 1) ELSE lifeIds
    /\ lpPc' = [lpPc EXCEPT ![p] = "send"]
    /\ UNCHANGED <<vcIsOpen, vcCtx, vcCancel, ctxDone, vcCmd, vcStdout, cmds,
                   vcPanic, frameChan, mainPc, rPc, lpReader, parsed, life,
                   restartedOpen, srcOf, rErr, againOk>>
    /\ UNCHANGED <<filterVars, hubVars, dispatchVars, adminVars,
                   pipelineVars, alertsVars, scannerVars, handlerVars>>

\* a send that does not look at the queue's capacity
ChanHasRoomAlways == TRUE

\* captureLoop, line 222: the send on vc.frameChan can proceed
ChanHasRoom == Len(frameChan) < FrameChanCap

\* a send that waits for room in the queue
LoopSendBlocking(p) ==
    /\ ~vcPanic
    /\ lpPc[p] = "send"
    /\ ChanHasRoom
    /\ frameChan' = Append(frameChan, lpVal[p])
    /\ lpVal' = [lpVal EXCEPT ![p] = 0]
    /\ lpPc' = [lpPc EXCEPT ![p] = "read"]
    /\ UNCHANGED <<vcIsOpen, vcCtx, vcCancel, ctxDone, vcCmd, vcStdout, cmds,
                   vcPanic, frameID, mainPc, rPc, lpReader, parsed, life,
                   lifeIds, restartedOpen, srcOf, rErr, againOk>>
    /\ UNCHANGED <<filterVars, hubVars, dispatchVars, adminVars,
                   pipelineVars, alertsVars, scannerVars, handlerVars>>

\* captureLoop, lines 221-228: the non-blocking send; the frame is dropped
\* when the channel is full
LoopSend(p) ==
    /\ ~vcPanic
    /\ lpPc[p] = "send"
    /\ IF ChanHasRoom
       THEN frameChan' = Append(frameChan, lpVal[p])
       ELSE UNCHANGED frameChan
    /\ lpVal' = [lpVal EXCEPT ![p] = 0]
    /\ lpPc' = [lpPc EXCEPT ![p] = "read"]
    /\ UNCHANGED <<vcIsOpen, vcCtx, vcCancel, ctxDone, vcCmd, vcStdout, cmds,
                   vcPanic, frameID, mainPc, rPc, lpReader, parsed, life,
                   lifeIds, restartedOpen, srcOf, rErr, againOk>>
    /\ UNCHANGED <<filterVars, hubVars, dispatchVars, adminVars,
                   pipelineVars, alertsVars, scannerVars, handlerVars>>

\* a dispatch worker receives the frame at the head of the queue
\* (workerLoop, case frame := <-gc.frameChan)
FrameConsumed ==
    /\ ~vcPanic
    /\ frameChan # <<>>
    /\ frameChan' = Tail(frameChan)
    /\ UNCHANGED <<vcIsOpen, vcCtx, vcCancel, ctxDone, vcCmd, vcStdout, cmds,
                   vcPanic, frameID, mainPc, rPc, lpPc, lpReader, lpVal,
                   parsed, life, lifeIds, restartedOpen, srcOf, rErr,
                   againOk>>
    /\ UNCHANGED <<filterVars, hubVars, dispatchVars, adminVars,
                   pipelineVars, alertsVars, scannerVars, handlerVars>>

CaptureInit ==
    /\ vcIsOpen = FALSE
    /\ vcCtx = "ctx0"
    /\ vcCancel = "ctx0"
    /\ ctxDone = {}
    /\ vcCmd = "nil"
    /\ vcStdout = "nil"
    /\ cmds = [p \in Starters |-> Cmd("none", FALSE)]
    /\ vcPanic = FALSE
    /\ frameID = 0
    /\ frameChan = <<>>
    /\ mainPc = "init"
    /\ rPc = [t \in Restarters |-> "idle"]
    /\ lpPc = [p \in Starters |-> "none"]
    /\ lpReader = [p \in Starters |-> "nil"]
    /\ lpVal = [p \in Starters |-> 0]
    /\ restartedOpen = FALSE
    /\ srcOf = [p \in Starters |-> DefaultVideo]
    /\ rErr = [t \in Restarters |-> "none"]
    /\ againOk = FALSE
    /\ parsed = 0
    /\ life = 0
    /\ lifeIds = <<>>

CaptureNext ==
    \/ \E ok \in BOOLEAN : MainStart(ok)
    \/ MainStop
    \/ \E t \in Restarters : RestartStop(t)
    \/ \E t \in Restarters : RestartNewCtx(t)
    \/ \E t \in Restarters : RestartNewCancel(t)
    \/ \E t \in Restarters, ok \in BOOLEAN : RestartStart(t, ok)
    \/ \E p \in Starters : ProcessExits(p)
    \/ \E p \in Starters : LoopInit(p)
    \/ \E p \in Starters, out \in {"frame", "err", "eof"} : LoopRead(p, out)
    \/ \E p \in Starters : LoopLoad(p)
    \/ \E p \in Starters : LoopStore(p)
    \/ \E p \in Starters : LoopSend(p)


-----------------------------------------------------------------------------
(* Detection dispatch: src/backend/internal/pipeline/grpc.go *)

\* detect, line 184: maxRetries := 3
MaxRetries == 3

FrameIds == 1..MaxTaken

AllWorkers == Workers \cup MoreWorkers

\* NewGRPCClient, line 73: workerCount
WorkerCount == Cardinality(Workers)

\* GRPCClient.Start called from main, under gc.mu: the connection is made
\* (ok), gc.conn and gc.client set and the workers spawned; or grpc.Dial
\* fails and Start returns the error
GcStart(ok) ==
    /\ gcPc = "init"
    /\ IF ok
       THEN /\ gcConn' = TRUE
            /\ gcClient' = TRUE
            /\ wkPc' = [w \in AllWorkers |->
                          IF w \in Workers THEN "select" ELSE wkPc[w]]
            /\ gcPc' = "started"
       ELSE /\ gcPc' = "failed"
            /\ UNCHANGED <<gcConn, gcClient, wkPc>>
    /\ UNCHANGED <<gcCtxDone, resultChan, totalSent, totalReceived, errors,
                   wkReg, wkFrame, wkTry, wkResp, taken, calls, gaveUp,
                   results, slept, yielded, placed>>
    /\ UNCHANGED <<filterVars, hubVars, captureVars, adminVars, pipelineVars,
                   alertsVars, scannerVars, handlerVars>>

\* GRPCClient.Stop called from main, under gc.mu: gc.cancel(), the
\* connection closed and gc.conn set to nil
GcStop ==
    /\ gcPc \in {"started", "failed"}
    /\ gcCtxDone' = TRUE
    /\ gcConn' = FALSE
    /\ gcPc' = "stopped"
    /\ UNCHANGED <<gcClient, resultChan, totalSent, totalReceived, errors,
                   wkPc, wkReg, wkFrame, wkTry, wkResp, taken, calls, gaveUp,
                   results, slept, yielded, placed>>
    /\ UNCHANGED <<filterVars, hubVars, captureVars, adminVars, pipelineVars,
                   alertsVars, scannerVars, handlerVars>>

\* Start called once more, by any holder of the GRPCClient, after main's
\* call has returned: Start looks at no state of the client; it dials
\* again, replaces gc.conn and gc.client and spawns workerCount more
\* workers (a failed dial changes nothing). gc.ctx is the one
\* NewGRPCClient made.
GcStartAgain ==
    /\ gcPc # "init"
    /\ \A w \in MoreWorkers : wkPc[w] = "off"
    /\ gcConn' = TRUE
    /\ gcClient' = TRUE
    /\ wkPc' = [w \in AllWorkers |->
                  IF w \in MoreWorkers THEN "select" ELSE wkPc[w]]
    /\ UNCHANGED <<gcPc, gcCtxDone, resultChan, totalSent, totalReceived,
                   errors, wkReg, wkFrame, wkTry, wkResp, taken, calls,
                   gaveUp, results, slept, yielded, placed>>
    /\ UNCHANGED <<filterVars, hubVars, captureVars, adminVars, pipelineVars,
                   alertsVars, scannerVars, handlerVars>>

\* Stop called once more: gc.cancel() again, and the connection, if there
\* is one, closed
GcStopAgain ==
    /\ gcPc = "stopped"
    /\ gcConn
    /\ gcCtxDone' = TRUE
    /\ gcConn' = FALSE
    /\ UNCHANGED <<gcPc, gcClient, resultChan, totalSent, totalReceived,
                   errors, wkPc, wkReg, wkFrame, wkTry, wkResp, taken, calls,
                   gaveUp, results, slept, yielded, placed>>
    /\ UNCHANGED <<filterVars, hubVars, captureVars, adminVars, pipelineVars,
                   alertsVars, scannerVars, handlerVars>>

\* workerLoop, case <-gc.ctx.Done(): the worker returns
WorkerExit(w) ==
    /\ wkPc[w] = "select"
    /\ gcCtxDone
    /\ wkPc' = [wkPc EXCEPT ![w] = "stopped"]
    /\ UNCHANGED <<gcPc, gcCtxDone, gcConn, gcClient, resultChan, totalSent,
                   totalReceived, errors, wkReg, wkFrame, wkTry, wkResp,
                   taken, calls, gaveUp, results, slept, yielded, placed>>
    /\ UNCHANGED <<filterVars, hubVars, captureVars, adminVars, pipelineVars,
                   alertsVars, scannerVars, handlerVars>>

\* workerLoop, case frame := <-gc.frameChan
WorkerTake(w) ==
    /\ wkPc[w] = "select"
    /\ frameChan # <<>>
    /\ wkFrame' = [wkFrame EXCEPT ![w] = Head(frameChan)]
    /\ frameChan' = Tail(frameChan)
    /\ taken' = taken \cup {Head(frameChan)}
    /\ wkPc' = [wkPc EXCEPT ![w] = "detect"]
    /\ UNCHANGED <<gcPc, gcCtxDone, gcConn, gcClient, resultChan, totalSent,
                   totalReceived, errors, wkReg, wkTry, wkResp, calls,
                   gaveUp, results, slept, yielded, placed>>
    /\ UNCHANGED <<vcIsOpen, vcCtx, vcCancel, ctxDone, vcCmd, vcStdout, cmds,
                   vcPanic, frameID, mainPc, rPc, lpPc, lpReader, lpVal,
                   parsed, life, lifeIds, restartedOpen, srcOf, rErr,
                   againOk>>
    /\ UNCHANGED <<filterVars, hubVars, adminVars, pipelineVars, alertsVars,
                   scannerVars, handlerVars>>

\* detect, lines 166-172: gc.client is read under gc.mu.RLock; without a
\* client detect returns nil and the worker goes back to its select
DetectBegin(w) ==
    /\ wkPc[w] = "detect"
    /\ IF gcClient
       THEN /\ wkPc' = [wkPc EXCEPT ![w] = "call"]
            /\ UNCHANGED wkFrame
       ELSE /\ wkPc' = [wkPc EXCEPT ![w] = "select"]
            /\ wkFrame' = [wkFrame EXCEPT ![w] = 0]
    /\ UNCHANGED <<gcPc, gcCtxDone, gcConn, gcClient, resultChan, totalSent,
                   totalReceived, errors, wkReg, wkTry, wkResp, taken, calls,
                   gaveUp, results, slept, yielded, placed>>
    /\ UNCHANGED <<filterVars, hubVars, captureVars, adminVars, pipelineVars,
                   alertsVars, scannerVars, handlerVars>>

\* a retry loop that makes one attempt too many
LoopContinuesOneMore(i) == i <= MaxRetries

\* detect, line 186: the loop condition i < maxRetries
LoopContinues(i) == i < MaxRetries

\* a backoff after every failed attempt, the last one too
BackoffAfterLast(i) == i < MaxRetries

\* detect, line 195: if i < maxRetries-1, the sleep of 100 ms
Backoff(i) == i < MaxRetries - 1

\* detect, lines 186-199, one iteration: client.Detect is called, with a
\* timeout derived from gc.ctx; it fails when gc.ctx is cancelled or the
\* connection is closed. A success ends the loop; after a failure i is
\* incremented (after the 100 ms sleep, if another attempt is left) and the
\* loop condition decides.
DetectCall(w, out) ==
    /\ wkPc[w] = "call"
    /\ (gcCtxDone \/ ~gcConn) => out = "err"
    /\ calls' = [calls EXCEPT ![wkFrame[w]] = calls[wkFrame[w]] + 1]
    /\ wkResp' = [wkResp EXCEPT ![w] = out]
    /\ slept' = IF out # "ok" /\ Backoff(wkTry[w])
                THEN [slept EXCEPT ![wkFrame[w]] = slept[wkFrame[w]] + 1]
                ELSE slept
    /\ IF out = "ok"
       THEN /\ wkPc' = [wkPc EXCEPT ![w] = "finish"]
            /\ UNCHANGED <<wkTry, gaveUp>>
       ELSE /\ wkTry' = [wkTry EXCEPT ![w] = wkTry[w] + 1]
            /\ IF LoopContinues(wkTry[w] + 1)
               THEN UNCHANGED <<wkPc, gaveUp>>
               ELSE /\ wkPc' = [wkPc EXCEPT ![w] = "finish"]
                    /\ gaveUp' = gaveUp \cup {wkFrame[w]}
    /\ UNCHANGED <<gcPc, gcCtxDone, gcConn, gcClient, resultChan, totalSent,
                   totalReceived, errors, wkReg, wkFrame, taken, results,
                   yielded, placed>>
    /\ UNCHANGED <<filterVars, hubVars, captureVars, adminVars, pipelineVars,
                   alertsVars, scannerVars, handlerVars>>

\* the send on gc.resultChan can proceed
ResultHasRoom == Len(resultChan) < ResultChanCap

\* the worker is back at its select, holding nothing
Released(w) ==
    /\ wkPc' = [wkPc EXCEPT ![w] = "select"]
    /\ wkFrame' = [wkFrame EXCEPT ![w] = 0]
    /\ wkTry' = [wkTry EXCEPT ![w] = 0]
    /\ wkResp' = [wkResp EXCEPT ![w] = "none"]

\* detect, line 201: gc.totalSent++ without a lock, the load
SentLoad(w) ==
    /\ wkPc[w] = "finish"
    /\ wkReg' = [wkReg EXCEPT ![w] = totalSent]
    /\ wkPc' = [wkPc EXCEPT ![w] = "sent"]
    /\ UNCHANGED <<gcPc, gcCtxDone, gcConn, gcClient, resultChan, totalSent,
                   totalReceived, errors, wkFrame, wkTry, wkResp, taken,
                   calls, gaveUp, results, slept, yielded, placed>>
    /\ UNCHANGED <<filterVars, hubVars, captureVars, adminVars, pipelineVars,
                   alertsVars, scannerVars, handlerVars>>

\* detect, line 201: gc.totalSent++, the store; lines 203 and 209 then tell
\* a failed last attempt from a response
SentStore(w) ==
    /\ wkPc[w] = "sent"
    /\ totalSent' = wkReg[w] + 1
    /\ wkReg' = [wkReg EXCEPT ![w] = 0]
    /\ wkPc' = [wkPc EXCEPT ![w] =
                   IF wkResp[w] \in {"err", "resperr"} THEN "err"
                   ELSE "send"]
    /\ UNCHANGED <<gcPc, gcCtxDone, gcConn, gcClient, resultChan,
                   totalReceived, errors, wkFrame, wkTry, wkResp, taken,
                   calls, gaveUp, results, slept, yielded, placed>>
    /\ UNCHANGED <<filterVars, hubVars, captureVars, adminVars, pipelineVars,
                   alertsVars, scannerVars, handlerVars>>

\* detect, lines 204 and 210: gc.errors++ without a lock, the load
ErrorsLoad(w) ==
    /\ wkPc[w] = "err"
    /\ wkReg' = [wkReg EXCEPT ![w] = errors]
    /\ wkPc' = [wkPc EXCEPT ![w] = "errSt"]
    /\ UNCHANGED <<gcPc, gcCtxDone, gcConn, gcClient, resultChan, totalSent,
                   totalReceived, errors, wkFrame, wkTry, wkResp, taken,
                   calls, gaveUp, results, slept, yielded, placed>>
    /\ UNCHANGED <<filterVars, hubVars, captureVars, adminVars, pipelineVars,
                   alertsVars, scannerVars, handlerVars>>

\* detect, lines 204-206 and 210-212: gc.errors++, the store; detect
\* returns nil and the worker sends nothing
ErrorsStore(w) ==
    /\ wkPc[w] = "errSt"
    /\ errors' = wkReg[w] + 1
    /\ wkReg' = [wkReg EXCEPT ![w] = 0]
    /\ Released(w)
    /\ UNCHANGED <<gcPc, gcCtxDone, gcConn, gcClient, resultChan, totalSent,
                   totalReceived, taken, calls, gaveUp, results, slept,
                   yielded, placed>>
    /\ UNCHANGED <<filterVars, hubVars, captureVars, adminVars, pipelineVars,
                   alertsVars, scannerVars, handlerVars>>

\* detect, lines 216-240, and workerLoop, lines 144-152: the
\* DetectionResult is made and sent on gc.resultChan without blocking,
\* dropped when the channel is full
DetectEnd(w) ==
    /\ wkPc[w] = "send"
    /\ results' = results \cup {wkFrame[w]}
    /\ yielded' = [yielded EXCEPT ![wkFrame[w]] = yielded[wkFrame[w]] + 1]
    /\ IF ResultHasRoom
       THEN /\ placed' = Append(placed, wkFrame[w])
            /\ resultChan' = Append(resultChan, wkFrame[w])
            /\ wkPc' = [wkPc EXCEPT ![w] = "recv"]
            /\ UNCHANGED <<wkFrame, wkTry, wkResp>>
       ELSE /\ Released(w)
            /\ UNCHANGED <<placed, resultChan>>
    /\ UNCHANGED <<gcPc, gcCtxDone, gcConn, gcClient, totalSent,
                   totalReceived, errors, wkReg, taken, calls, gaveUp, slept>>
    /\ UNCHANGED <<filterVars, hubVars, captureVars, adminVars, pipelineVars,
                   alertsVars, scannerVars, handlerVars>>

\* workerLoop, line 148: gc.totalReceived++ without a lock, the load
ReceivedLoad(w) ==
    /\ wkPc[w] = "recv"
    /\ wkReg' = [wkReg EXCEPT ![w] = totalReceived]
    /\ wkPc' = [wkPc EXCEPT ![w] = "recvSt"]
    /\ UNCHANGED <<gcPc, gcCtxDone, gcConn, gcClient, resultChan, totalSent,
                   totalReceived, errors, wkFrame, wkTry, wkResp, taken,
                   calls, gaveUp, results, slept, yielded, placed>>
    /\ UNCHANGED <<filterVars, hubVars, captureVars, adminVars, pipelineVars,
                   alertsVars, scannerVars, handlerVars>>

\* workerLoop, line 148: gc.totalReceived++, the store
ReceivedStore(w) ==
    /\ wkPc[w] = "recvSt"
    /\ totalReceived' = wkReg[w] + 1
    /\ wkReg' = [wkReg EXCEPT ![w] = 0]
    /\ Released(w)
    /\ UNCHANGED <<gcPc, gcCtxDone, gcConn, gcClient, resultChan, totalSent,
                   errors, taken, calls, gaveUp, results, slept, yielded,
                   placed>>
    /\ UNCHANGED <<filterVars, hubVars, captureVars, adminVars, pipelineVars,
                   alertsVars, scannerVars, handlerVars>>

\* the capture loop parses a frame, gives it the next Frame.ID and sends
\* it on the frame queue without blocking (captureLoop, lines 209-228)
FrameProduced ==
    /\ frameID < MaxFrames
    /\ frameID' = frameID + 1
    /\ frameChan' = IF ChanHasRoom THEN Append(frameChan, frameID + 1)
                    ELSE frameChan
    /\ UNCHANGED <<gcPc, gcCtxDone, gcConn, gcClient, resultChan, totalSent,
                   totalReceived, errors, wkPc, wkReg, wkFrame, wkTry,
                   wkResp, taken, calls, gaveUp, results, slept, yielded,
                   placed>>
    /\ UNCHANGED <<vcIsOpen, vcCtx, vcCancel, ctxDone, vcCmd, vcStdout, cmds,
                   vcPanic, mainPc, rPc, lpPc, lpReader, lpVal, parsed, life,
                   lifeIds, restartedOpen, srcOf, rErr, againOk>>
    /\ UNCHANGED <<filterVars, hubVars, adminVars, pipelineVars, alertsVars,
                   scannerVars, handlerVars>>

\* the same, for a capture that goes on to MaxTaken frames
FrameProducedOn ==
    /\ frameID < MaxTaken
    /\ frameID' = frameID + 1
    /\ frameChan' = IF ChanHasRoom THEN Append(frameChan, frameID + 1)
                    ELSE frameChan
    /\ UNCHANGED <<gcPc, gcCtxDone, gcConn, gcClient, resultChan, totalSent,
                   totalReceived, errors, wkPc, wkReg, wkFrame, wkTry,
                   wkResp, taken, calls, gaveUp, results, slept, yielded,
                   placed>>
    /\ UNCHANGED <<vcIsOpen, vcCtx, vcCancel, ctxDone, vcCmd, vcStdout, cmds,
                   vcPanic, mainPc, rPc, lpPc, lpReader, lpVal, parsed, life,
                   lifeIds, restartedOpen, srcOf, rErr, againOk>>
    /\ UNCHANGED <<filterVars, hubVars, adminVars, pipelineVars, alertsVars,
                   scannerVars, handlerVars>>

\* the hub's broadcastLoop receives the result at the head of the result
\* queue (for result := range ws.resultChan)
ResultConsumed ==
    /\ resultChan # <<>>
    /\ resultChan' = Tail(resultChan)
    /\ UNCHANGED <<gcPc, gcCtxDone, gcConn, gcClient, totalSent,
                   totalReceived, errors, wkPc, wkReg, wkFrame, wkTry,
                   wkResp, taken, calls, gaveUp, results, slept, yielded,
                   placed>>
    /\ UNCHANGED <<filterVars, hubVars, captureVars, adminVars, pipelineVars,
                   alertsVars, scannerVars, handlerVars>>

DispatchInit ==
    /\ gcPc = "init"
    /\ gcCtxDone = FALSE
    /\ gcConn = FALSE
    /\ gcClient = FALSE
    /\ resultChan = <<>>
    /\ totalSent = 0
    /\ totalReceived = 0
    /\ errors = 0
    /\ wkReg = [w \in AllWorkers |-> 0]
    /\ wkPc = [w \in AllWorkers |-> "off"]
    /\ wkFrame = [w \in AllWorkers |-> 0]
    /\ wkTry = [w \in AllWorkers |-> 0]
    /\ wkResp = [w \in AllWorkers |-> "none"]
    /\ taken = {}
    /\ calls = [f \in FrameIds |-> 0]
    /\ slept = [f \in FrameIds |-> 0]
    /\ yielded = [f \in FrameIds |-> 0]
    /\ placed = <<>>
    /\ gaveUp = {}
    /\ results = {}

DispatchNext ==
    \/ \E ok \in BOOLEAN : GcStart(ok)
    \/ GcStop
    \/ \E w \in AllWorkers : WorkerExit(w)
    \/ \E w \in AllWorkers : WorkerTake(w)
    \/ \E w \in AllWorkers : DetectBegin(w)
    \/ \E w \in AllWorkers, out \in {"ok", "err", "resperr"} :
          DetectCall(w, out)
    \/ \E w \in AllWorkers : SentLoad(w)
    \/ \E w \in AllWorkers : SentStore(w)
    \/ \E w \in AllWorkers : ErrorsLoad(w)
    \/ \E w \in AllWorkers : ErrorsStore(w)
    \/ \E w \in AllWorkers : DetectEnd(w)
    \/ \E w \in AllWorkers : ReceivedLoad(w)
    \/ \E w \in AllWorkers : ReceivedStore(w)

-----------------------------------------------------------------------------
(* Administrative calls: src/backend/internal/pipeline/grpc.go *)

\* what UpdateAIParams or ReloadModel returns: err is "nil" or the kind of
\* error, success and message are the response's fields ("none" and FALSE
\* when the response is nil)
Resp(err, success, message) ==
    [err |-> err, success |-> success, message |-> message]

NoResp == Resp("none", FALSE, "none")

\* how a client.UpdateParams or client.ReloadModel call ends: "ok" and
\* "fail" are responses of the service with Success true and false,
\* "unavailable" a transport error, "deadline" the call's own timeout (5 s,
\* 60 s), "closing" the error of a call on a connection that Stop has
\* closed
RpcOutcomes == {"ok", "fail", "unavailable", "deadline", "closing"}

RpcResp(out) ==
    CASE out = "ok"   -> Resp("nil", TRUE, "remote")
      [] out = "fail" -> Resp("nil", FALSE, "remote")
      [] OTHER        -> Resp(out, FALSE, "none")

\* UpdateAIParams, lines 244-262: gc.client is read under gc.mu.RLock;
\* without a client the call returns Success true and the message "AI 服务
\* 未连接，仅更新本地配置" (local configuration only); otherwise
\* client.UpdateParams is called with a 5 s timeout of its own
UpdateAIParams(a) ==
    /\ adPc[a] \in {"idle", "done"}
    /\ adKind' = [adKind EXCEPT ![a] = "update"]
    /\ adNoConn' = [adNoConn EXCEPT ![a] = ~gcConn]
    /\ IF ~gcClient
       THEN /\ adPc' = [adPc EXCEPT ![a] = "done"]
            /\ adResp' = [adResp EXCEPT ![a] = Resp("nil", TRUE, "local-only")]
       ELSE /\ adPc' = [adPc EXCEPT ![a] = "rpc"]
            /\ adResp' = [adResp EXCEPT ![a] = NoResp]
    /\ UNCHANGED <<filterVars, hubVars, captureVars, dispatchVars,
                   pipelineVars, alertsVars, scannerVars, handlerVars>>

\* ReloadModel, lines 266-286: without a client the call returns Success
\* false and the message "AI 服务未连接" (not connected); otherwise
\* client.ReloadModel is called with a 60 s timeout of its own
ReloadModel(a) ==
    /\ adPc[a] \in {"idle", "done"}
    /\ adKind' = [adKind EXCEPT ![a] = "reload"]
    /\ adNoConn' = [adNoConn EXCEPT ![a] = ~gcConn]
    /\ IF ~gcClient
       THEN /\ adPc' = [adPc EXCEPT ![a] = "done"]
            /\ adResp' = [adResp EXCEPT ![a] = Resp("nil", FALSE, "not-connected")]
       ELSE /\ adPc' = [adPc EXCEPT ![a] = "rpc"]
            /\ adResp' = [adResp EXCEPT ![a] = NoResp]
    /\ UNCHANGED <<filterVars, hubVars, captureVars, dispatchVars,
                   pipelineVars, alertsVars, scannerVars, handlerVars>>

\* lines 262 and 284: the call on the client returns and with it
\* UpdateAIParams or ReloadModel. The context is context.Background() with
\* a timeout, so gc.cancel() does not end the call; once Stop has closed
\* the connection (line 120) a call on it ends with the closing error.
RpcReturns(a, out) ==
    /\ adPc[a] = "rpc"
    /\ (out = "closing") <=> (gcPc = "stopped")
    /\ adPc' = [adPc EXCEPT ![a] = "done"]
    /\ adResp' = [adResp EXCEPT ![a] = RpcResp(out)]
    /\ UNCHANGED <<adKind, adNoConn>>
    /\ UNCHANGED <<filterVars, hubVars, captureVars, dispatchVars,
                   pipelineVars, alertsVars, scannerVars, handlerVars>>

AdminInit ==
    /\ adPc = [a \in Admins |-> "idle"]
    /\ adKind = [a \in Admins |-> "none"]
    /\ adResp = [a \in Admins |-> NoResp]
    /\ adNoConn = [a \in Admins |-> FALSE]

AdminNext ==
    \/ \E a \in Admins : UpdateAIParams(a)
    \/ \E a \in Admins : ReloadModel(a)
    \/ \E a \in Admins, out \in RpcOutcomes : RpcReturns(a, out)

-----------------------------------------------------------------------------
(* The wiring of the result queue: src/unnamed/part_003 (package main) and *)
(* src/unnamed/part_002 (WebSocketServer)                                  *)

\* broadcastLoop, lines 205-243, one iteration: a result is received from
\* the result queue, its FrameMessage built and passed to Hub.Broadcast as a
\* "frame" event; Broadcast puts it on h.broadcast or drops it when that is
\* full. The loop ends when the result queue is closed, and no statement of
\* the program closes it.
broadcastLoop ==
    /\ blPc = "range"
    /\ resultChan # <<>>
    /\ resultChan' = Tail(resultChan)
    /\ framesBroadcast' = framesBroadcast \cup {Head(resultChan)}
    /\ bcastCount' = bcastCount + 1
    /\ IF Len(hubBroadcast) < BroadcastCap
       THEN /\ hubBroadcast' = Append(hubBroadcast, bcastCount + 1)
            /\ UNCHANGED bcastDropped
       ELSE /\ bcastDropped' = bcastDropped \cup {bcastCount + 1}
            /\ UNCHANGED hubBroadcast
    /\ UNCHANGED <<paPc, blPc, alPc, clPc, pdSeen>>
    /\ UNCHANGED <<hubCtx, hubClients, hubPc, hubArg, stopPc, hubPanic, hPc,
                   send, sendClosed, cCtx, wPc, wMsg, admittedAt, received,
                   dequeued>>
    /\ UNCHANGED <<gcPc, gcCtxDone, gcConn, gcClient, totalSent,
                   totalReceived, errors, wkPc, wkReg, wkFrame, wkTry,
                   wkResp, taken, calls, gaveUp, results, slept, yielded,
                   placed>>
    /\ UNCHANGED <<filterVars, captureVars, adminVars, alertsVars,
                   scannerVars, handlerVars>>

\* processAlerts, part_003 lines 158-165: the goroutine logs that it has
\* started and returns; it receives nothing from the result queue, calls
\* nothing of the AlertFilter and sends nothing on the alert queue. (No
\* statement of the program sends on the alert queue, so alertLoop, part_002
\* lines 246-258, never leaves its receive and has no step.)
processAlerts ==
    /\ paPc = "spawned"
    /\ paPc' = "returned"
    /\ UNCHANGED <<blPc, alPc, clPc, framesBroadcast, pdSeen>>
    /\ UNCHANGED <<filterVars, hubVars, captureVars, dispatchVars, adminVars,
                   alertsVars, scannerVars, handlerVars>>

PipelineInit ==
    /\ paPc = "spawned"
    /\ blPc = "range"
    /\ alPc = "range"
    /\ clPc = "range"
    /\ framesBroadcast = {}
    /\ pdSeen = {}

PipelineNext ==
    \/ broadcastLoop
    \/ processAlerts

-----------------------------------------------------------------------------
(* ProcessDetections called by one goroutine, result after result:         *)
(* src/unnamed/part_001                                                    *)

\* DefaultConfig().Filter as it is: threshold 0.5, window 60 s, push enabled
DefaultFilterSeconds == [thr |-> 50, window |-> 60, enable |-> TRUE]

\* the detections of the results: two overlapping boxes (IoU 8550/10950),
\* each flagged uncertain or not
ResultBoxes == { Box(100, 100, 200, 200), Box(110, 105, 205, 205) }

ResultDetections == [box : ResultBoxes, uncertain : BOOLEAN]

\* Frame.Width and Frame.Height of the frame a result belongs to
FrameSizes == { [width |-> 1280, height |-> 720] }

\* the results passed to ProcessDetections, each with one detection
Results == [det : ResultDetections, frame : FrameSizes]

\* seconds between one ProcessDetections call and the next
Gaps == {0, 2, 61}

\* AlertMessage.ImageData as ProcessDetections leaves it: the field is
\* never assigned (the crop is a TODO at lines 182-183), so the message
\* carries the empty image, kept as the empty rectangle
NoCrop == Box(0, 0, 0, 0)

\* the AlertMessage of lines 169-180
AlertMessage(id, det, t) ==
    [frameID |-> id, timestamp |-> t, box |-> det.box,
     imageData |-> NoCrop]

\* ShouldAlert called at clock t with no other call in progress: the result
\* and f.activeAlerts afterwards
ShouldAlert(det, alerts, cfg, t) ==
    IF ~cfg.enable \/ ~det.uncertain
    THEN [res |-> FALSE, alerts |-> alerts]
    ELSE LET validAlerts == PurgeExpired(alerts, ExpireTime(t, cfg))
         IN  IF Suppressed(det, validAlerts, cfg)
             THEN [res |-> FALSE, alerts |-> validAlerts]
             ELSE [res |-> TRUE,
                   alerts |-> Append(validAlerts, [box |-> det.box, ts |-> t])]

\* ProcessDetections, lines 163-190, for a result with one detection, gap
\* seconds after the previous call: ShouldAlert decides, and an AlertMessage
\* is made for the detection when it returns true
ProcessDetections(result, gap) ==
    /\ Len(pdLog) < MaxResults
    /\ LET t == now + gap
           id == Len(pdLog) + 1
           sa == ShouldAlert(result.det, activeAlerts, filterCfg, t)
       IN  /\ now' = t
           /\ activeAlerts' = sa.alerts
           /\ pdLog' = Append(pdLog, [det |-> result.det, t |-> t,
                                      res |-> sa.res])
           /\ pdAlerts' =
                 IF sa.res
                 THEN pdAlerts \cup
                      {[msg |-> AlertMessage(id, result.det, t),
                        frame |-> result.frame]}
                 ELSE pdAlerts
           /\ pdSeen' = pdSeen \cup {id}
    /\ UNCHANGED <<filterCfg, saPc, saDet, saCfg, saStale, saLast, saLog>>
    /\ UNCHANGED <<paPc, blPc, alPc, clPc, framesBroadcast>>
    /\ UNCHANGED <<hubVars, captureVars, dispatchVars, adminVars,
                   scannerVars, handlerVars>>

AlertsInit ==
    /\ pdLog = <<>>
    /\ pdAlerts = {}

AlertsNext ==
    \E result \in Results, gap \in Gaps : ProcessDetections(result, gap)

-----------------------------------------------------------------------------
(* The JPEG scanner: src/unnamed/part_000, readJPEGFrame *)

\* the byte values the scanner tells apart: 0xFF, 0xD8, 0xD9 and any other
\* byte
Bytes == {"FF", "D8", "D9", "00"}

\* readJPEGFrame, lines 241-261, from reader position i: the position of
\* the start marker found, or 0 when the bytes run out first. After FF a
\* byte that is not D8 is put back (UnreadByte) and read again.
RECURSIVE FindStart(_, _)
FindStart(stream, i) ==
    IF i > Len(stream) THEN 0
    ELSE IF stream[i] = "FF"
         THEN IF i + 1 > Len(stream) THEN 0
              ELSE IF stream[i + 1] = "D8" THEN i
              ELSE FindStart(stream, i + 1)
         ELSE FindStart(stream, i + 1)

\* readJPEGFrame, lines 264-288, from reader position i with buf written so
\* far: the bytes returned and the reader's position afterwards; next is 0
\* when the bytes run out first, and big is TRUE when the call returns the
\* error of line 286. After FF the next byte is read and written too and,
\* when it is not D9, not looked at again. The size is looked at once per
\* turn of the loop, after the one or two bytes of the turn are written and
\* only when the turn did not return the frame.
RECURSIVE ReadToEnd(_, _, _)
ReadToEnd(stream, i, buf) ==
    IF i > Len(stream) THEN [data |-> <<>>, next |-> 0, big |-> FALSE]
    ELSE IF stream[i] = "FF"
         THEN IF i + 1 > Len(stream)
              THEN [data |-> <<>>, next |-> 0, big |-> FALSE]
              ELSE IF stream[i + 1] = "D9"
                   THEN [data |-> buf \o <<stream[i], stream[i + 1]>>,
                         next |-> i + 2, big |-> FALSE]
                   ELSE IF Len(buf) + 2 > FrameLimit
                        THEN [data |-> <<>>, next |-> i + 2, big |-> TRUE]
                        ELSE ReadToEnd(stream, i + 2,
                                       buf \o <<stream[i], stream[i + 1]>>)
         ELSE IF Len(buf) + 1 > FrameLimit
              THEN [data |-> <<>>, next |-> i + 1, big |-> TRUE]
              ELSE ReadToEnd(stream, i + 1, Append(buf, stream[i]))

\* readJPEGFrame from reader position i: next is 0 when the bytes run out
\* before the call can return a frame or the error of line 286
ScanFrame(stream, i) ==
    LET start == FindStart(stream, i)
    IN  IF start = 0 THEN [data |-> <<>>, next |-> 0, big |-> FALSE]
        ELSE ReadToEnd(stream, start + 2, <<"FF", "D8">>)

\* the decoder writes a byte to its stdout
DecoderWrites(b) ==
    /\ ~scClosed
    /\ Len(scStream) < MaxStream
    /\ scStream' = Append(scStream, b)
    /\ UNCHANGED <<scClosed, scPos, scPc, scErrors, scFrames>>
    /\ UNCHANGED <<filterVars, hubVars, captureVars, dispatchVars, adminVars,
                   pipelineVars, alertsVars, handlerVars>>

\* the decoder ends and its stdout is at end of file
DecoderEnds ==
    /\ ~scClosed
    /\ scClosed' = TRUE
    /\ UNCHANGED <<scStream, scPos, scPc, scErrors, scFrames>>
    /\ UNCHANGED <<filterVars, hubVars, captureVars, dispatchVars, adminVars,
                   pipelineVars, alertsVars, handlerVars>>

\* captureLoop, line 193: readJPEGFrame returns a frame; the call returns
\* once the bytes up to the end marker it stops at have been written
readJPEGFrame ==
    /\ scPc = "scan"
    /\ ScanFrame(scStream, scPos).next # 0
    /\ ~ScanFrame(scStream, scPos).big
    /\ scFrames' = Append(scFrames,
                          [data |-> ScanFrame(scStream, scPos).data,
                           from |-> scPos,
                           next |-> ScanFrame(scStream, scPos).next])
    /\ scPos' = ScanFrame(scStream, scPos).next
    /\ UNCHANGED <<scStream, scClosed, scPc, scErrors>>
    /\ UNCHANGED <<filterVars, hubVars, captureVars, dispatchVars, adminVars,
                   pipelineVars, alertsVars, handlerVars>>

\* captureLoop, lines 193-202: readJPEGFrame returns the error of line 286;
\* the loop counts it, sleeps and goes on to the next call
readJPEGFrameTooBig ==
    /\ scPc = "scan"
    /\ ScanFrame(scStream, scPos).next # 0
    /\ ScanFrame(scStream, scPos).big
    /\ scErrors' = scErrors + 1
    /\ scPos' = ScanFrame(scStream, scPos).next
    /\ UNCHANGED <<scStream, scClosed, scPc, scFrames>>
    /\ UNCHANGED <<filterVars, hubVars, captureVars, dispatchVars, adminVars,
                   pipelineVars, alertsVars, handlerVars>>

\* captureLoop, lines 193-197: readJPEGFrame meets the end of the stream
\* and returns io.EOF; the loop returns
readJPEGFrameEOF ==
    /\ scPc = "scan"
    /\ scClosed
    /\ ScanFrame(scStream, scPos).next = 0
    /\ scPos' = Len(scStream) + 1
    /\ scPc' = "exited"
    /\ UNCHANGED <<scStream, scClosed, scErrors, scFrames>>
    /\ UNCHANGED <<filterVars, hubVars, captureVars, dispatchVars, adminVars,
                   pipelineVars, alertsVars, handlerVars>>

ScannerInit ==
    /\ scStream = <<>>
    /\ scClosed = FALSE
    /\ scPos = 1
    /\ scPc = "scan"
    /\ scErrors = 0
    /\ scFrames = <<>>

ScannerNext ==
    \/ \E b \in Bytes : DecoderWrites(b)
    \/ DecoderEnds
    \/ readJPEGFrame
    \/ readJPEGFrameTooBig
    \/ readJPEGFrameEOF

-----------------------------------------------------------------------------
(* The configuration handlers: src/backend/internal/config/config.go
   (package handler) *)

\* a pointer field of a request: <<>> when the field is absent, <<v>>
\* when it is present
Opt(S) == {<<>>} \cup { <<v>> : v \in S }

\* AIConfigRequest, FilterConfigRequest and TrainingConfigRequest in one
\* record; a request of one kind leaves the fields of the others absent
NoReq == [conf |-> <<>>, ent |-> <<>>, nms |-> <<>>, size |-> <<>>,
          thr |-> <<>>, window |-> <<>>, enable |-> <<>>, auto |-> <<>>,
          trigger |-> <<>>]

\* request bodies: thresholds in percent
AIConfigRequests ==
    { [NoReq EXCEPT !.conf = c, !.ent = e, !.nms = n, !.size = z] :
        c \in Opt({30, 101}), e \in Opt({-1}), n \in Opt({40, 60}),
        z \in Opt({500}) }

FilterConfigRequests ==
    { [NoReq EXCEPT !.thr = t, !.window = w, !.enable = e, !.auto = a] :
        t \in Opt({101}), w \in Opt({0, 30, 121}), e \in Opt({FALSE}),
        a \in Opt({FALSE}) }

TrainingConfigRequests ==
    { [NoReq EXCEPT !.trigger = t] : t \in Opt({49, 200, 501}) }

\* DefaultConfig, the AI, Filter and Training sections
DefaultConfig ==
    [ai |-> [conf |-> 50, ent |-> 50, nms |-> 80, size |-> 640],
     filter |-> [thr |-> 50, window |-> 60, enable |-> TRUE, auto |-> TRUE],
     training |-> [trigger |-> 100]]

\* UpdateAIConfig, lines 284-318: the checks in their order. err is the
\* field the first failed check names, "" when none fails; ai is aiConfig
\* as it stands when the handler returns or reaches UpdateAI.
ValidateAI(req, ai) ==
    LET a1 == IF req.conf # <<>> THEN [ai EXCEPT !.conf = req.conf[1]] ELSE ai
        a2 == IF req.ent # <<>> THEN [a1 EXCEPT !.ent = req.ent[1]] ELSE a1
        a3 == IF req.nms # <<>> THEN [a2 EXCEPT !.nms = req.nms[1]] ELSE a2
        a4 == IF req.size # <<>> THEN [a3 EXCEPT !.size = req.size[1]] ELSE a3
    IN  IF req.conf # <<>> /\ (req.conf[1] < 0 \/ req.conf[1] > 100)
        THEN [err |-> "confidence_threshold", ai |-> ai]
        ELSE IF req.ent # <<>> /\ (req.ent[1] < 0 \/ req.ent[1] > 100)
        THEN [err |-> "entropy_threshold", ai |-> a1]
        ELSE IF req.nms # <<>> /\ (req.nms[1] < 50 \/ req.nms[1] > 100)
        THEN [err |-> "nms_iou_threshold", ai |-> a2]
        ELSE IF req.size # <<>> /\ req.size[1] # 320 /\ req.size[1] # 640
                /\ req.size[1] # 1280
        THEN [err |-> "input_size", ai |-> a3]
        ELSE [err |-> "", ai |-> a4]

\* UpdateFilterConfig, lines 372-394
ValidateFilter(req, fc) ==
    LET f1 == IF req.thr # <<>> THEN [fc EXCEPT !.thr = req.thr[1]] ELSE fc
        f2 == IF req.window # <<>> THEN [f1 EXCEPT !.window = req.window[1]]
              ELSE f1
        f3 == IF req.enable # <<>> THEN [f2 EXCEPT !.enable = req.enable[1]]
              ELSE f2
        f4 == IF req.auto # <<>> THEN [f3 EXCEPT !.auto = req.auto[1]] ELSE f3
    IN  IF req.thr # <<>> /\ (req.thr[1] < 0 \/ req.thr[1] > 100)
        THEN [err |-> "spatial_iou_threshold", filter |-> fc]
        ELSE IF req.window # <<>> /\ (req.window[1] < 1 \/ req.window[1] > 120)
        THEN [err |-> "time_window_seconds", filter |-> f1]
        ELSE [err |-> "", filter |-> f4]

\* UpdateTrainingConfig, lines 428-434
ValidateTraining(req, tc) ==
    IF req.trigger # <<>> /\ (req.trigger[1] < 50 \/ req.trigger[1] > 500)
    THEN [err |-> "trigger_threshold", training |-> tc]
    ELSE [err |-> "",
          training |-> IF req.trigger # <<>>
                       THEN [tc EXCEPT !.trigger = req.trigger[1]] ELSE tc]

\* the three handlers up to their first return or their Update* call: the
\* section is read (GetAI, GetFilter, GetTraining) and the checks change
\* the handler's copy of it
Validate(kind, req, cfg) ==
    IF kind = "ai"
    THEN LET v == ValidateAI(req, cfg.ai)
         IN  [err |-> v.err, local |-> [cfg EXCEPT !.ai = v.ai]]
    ELSE IF kind = "filter"
    THEN LET v == ValidateFilter(req, cfg.filter)
         IN  [err |-> v.err, local |-> [cfg EXCEPT !.filter = v.filter]]
    ELSE LET v == ValidateTraining(req, cfg.training)
         IN  [err |-> v.err, local |-> [cfg EXCEPT !.training = v.training]]

RequestsOf(kind) ==
    IF kind = "ai" THEN AIConfigRequests
    ELSE IF kind = "filter" THEN FilterConfigRequests
    ELSE TrainingConfigRequests

\* lines 274-277, 365-368, 421-424: ShouldBindJSON fails and the handler
\* answers 400
BindFails(q, kind) ==
    /\ rqPc[q] = "idle"
    /\ rqPc' = [rqPc EXCEPT ![q] = "done"]
    /\ rqKind' = [rqKind EXCEPT ![q] = kind]
    /\ rqStatus' = [rqStatus EXCEPT ![q] = 400]
    /\ rqMsg' = [rqMsg EXCEPT ![q] = "bind"]
    /\ UNCHANGED <<config, rqReq, rqLocal, videoCfg, uvPc, uvStatus,
                   uvBefore>>
    /\ UNCHANGED <<filterVars, hubVars, captureVars, dispatchVars, adminVars,
                   pipelineVars, alertsVars, scannerVars>>

\* a handler that writes its copy of the section back before it answers
\* 400
HandlerBeginsApplying(q, kind, req) ==
    /\ rqPc[q] = "idle"
    /\ rqKind' = [rqKind EXCEPT ![q] = kind]
    /\ rqReq' = [rqReq EXCEPT ![q] = req]
    /\ LET v == Validate(kind, req, config)
       IN  IF v.err # ""
           THEN /\ rqPc' = [rqPc EXCEPT ![q] = "done"]
                /\ rqStatus' = [rqStatus EXCEPT ![q] = 400]
                /\ rqMsg' = [rqMsg EXCEPT ![q] = v.err]
                /\ config' = v.local
                /\ UNCHANGED rqLocal
           ELSE /\ rqPc' = [rqPc EXCEPT ![q] = "apply"]
                /\ rqLocal' = [rqLocal EXCEPT ![q] = v.local]
                /\ UNCHANGED <<rqStatus, rqMsg, config>>
    /\ UNCHANGED <<videoCfg, uvPc, uvStatus, uvBefore>>
    /\ UNCHANGED <<filterVars, hubVars, captureVars, dispatchVars, adminVars,
                   pipelineVars, alertsVars, scannerVars>>

\* a handler from its entry to its first return (a failed check answers
\* 400) or to just before its Update* call
HandlerBegins(q, kind, req) ==
    /\ rqPc[q] = "idle"
    /\ rqKind' = [rqKind EXCEPT ![q] = kind]
    /\ rqReq' = [rqReq EXCEPT ![q] = req]
    /\ LET v == Validate(kind, req, config)
       IN  IF v.err # ""
           THEN /\ rqPc' = [rqPc EXCEPT ![q] = "done"]
                /\ rqStatus' = [rqStatus EXCEPT ![q] = 400]
                /\ rqMsg' = [rqMsg EXCEPT ![q] = v.err]
                /\ UNCHANGED rqLocal
           ELSE /\ rqPc' = [rqPc EXCEPT ![q] = "apply"]
                /\ rqLocal' = [rqLocal EXCEPT ![q] = v.local]
                /\ UNCHANGED <<rqStatus, rqMsg>>
    /\ UNCHANGED <<config, videoCfg, uvPc, uvStatus, uvBefore>>
    /\ UNCHANGED <<filterVars, hubVars, captureVars, dispatchVars, adminVars,
                   pipelineVars, alertsVars, scannerVars>>

\* UpdateAI, UpdateFilter, UpdateTraining: the section is replaced by the
\* handler's copy under the write lock. UpdateFilterConfig and
\* UpdateTrainingConfig then answer 200; UpdateAIConfig goes on to
\* UpdateAIParams.
HandlerUpdates(q) ==
    /\ rqPc[q] = "apply"
    /\ config' = IF rqKind[q] = "ai"
                 THEN [config EXCEPT !.ai = rqLocal[q].ai]
                 ELSE IF rqKind[q] = "filter"
                 THEN [config EXCEPT !.filter = rqLocal[q].filter]
                 ELSE [config EXCEPT !.training = rqLocal[q].training]
    /\ IF rqKind[q] = "ai"
       THEN /\ rqPc' = [rqPc EXCEPT ![q] = "forward"]
            /\ UNCHANGED <<rqStatus, rqMsg>>
       ELSE /\ rqPc' = [rqPc EXCEPT ![q] = "done"]
            /\ rqStatus' = [rqStatus EXCEPT ![q] = 200]
            /\ rqMsg' = [rqMsg EXCEPT ![q] = ""]
    /\ UNCHANGED <<rqKind, rqReq, rqLocal, videoCfg, uvPc, uvStatus,
                   uvBefore>>
    /\ UNCHANGED <<filterVars, hubVars, captureVars, dispatchVars, adminVars,
                   pipelineVars, alertsVars, scannerVars>>

\* what UpdateAIConfig appends to its message, lines 325-337: nothing, the
\* note that the AI service is not running (err # nil), or resp.Message
\* (resp.Success is false)
ServiceMessages == {"", "not-running", "resp.Message"}

\* UpdateAIConfig, lines 325-345: UpdateAIParams has returned and the
\* handler answers 200 whatever it returned
HandlerForwarded(q, m) ==
    /\ rqPc[q] = "forward"
    /\ rqPc' = [rqPc EXCEPT ![q] = "done"]
    /\ rqStatus' = [rqStatus EXCEPT ![q] = 200]
    /\ rqMsg' = [rqMsg EXCEPT ![q] = m]
    /\ UNCHANGED <<config, rqKind, rqReq, rqLocal, videoCfg, uvPc, uvStatus,
                   uvBefore>>
    /\ UNCHANGED <<filterVars, hubVars, captureVars, dispatchVars, adminVars,
                   pipelineVars, alertsVars, scannerVars>>

\* VideoConfigRequest: source_type and fps (the address and the path are
\* not looked at by the handler)
VideoConfigRequests ==
    [type : {"rtsp", "local", "usb"}, fps : {30, 60, 121}]

\* UpdateVideoConfig, lines 223-232: the two checks
ValidVideo(req) ==
    /\ req.type \in {"rtsp", "local"}
    /\ ~(req.fps < 1 \/ req.fps > 120)

\* UpdateVideoConfig, lines 223-232: a check fails, 400, nothing written
UpdateVideoRejects(t, req) ==
    /\ uvPc[t] = "idle"
    /\ ~ValidVideo(req)
    /\ uvStatus' = [uvStatus EXCEPT ![t] = 400]
    /\ uvPc' = [uvPc EXCEPT ![t] = "done"]
    /\ uvBefore' = [uvBefore EXCEPT ![t] =
                       [cfg |-> videoCfg, open |-> vcIsOpen, cmd |-> vcCmd]]
    /\ UNCHANGED <<config, rqPc, rqKind, rqReq, rqLocal, rqStatus, rqMsg,
                   videoCfg>>
    /\ UNCHANGED <<filterVars, hubVars, captureVars, dispatchVars, adminVars,
                   pipelineVars, alertsVars, scannerVars>>

\* UpdateVideoConfig, lines 235-240: h.config.UpdateVideo(...) with the
\* request's values, before Restart is called
UpdateVideoStores(t, req) ==
    /\ uvPc[t] = "idle"
    /\ ValidVideo(req)
    /\ videoCfg' = req
    /\ uvPc' = [uvPc EXCEPT ![t] = "restart"]
    /\ uvBefore' = [uvBefore EXCEPT ![t] =
                       [cfg |-> videoCfg, open |-> vcIsOpen, cmd |-> vcCmd]]
    /\ UNCHANGED <<config, rqPc, rqKind, rqReq, rqLocal, rqStatus, rqMsg,
                   uvStatus>>
    /\ UNCHANGED <<filterVars, hubVars, captureVars, dispatchVars, adminVars,
                   pipelineVars, alertsVars, scannerVars>>

\* UpdateVideoConfig, line 244: h.videoCapture.Restart() is entered
UpdateVideoRestarts(t) ==
    /\ uvPc[t] = "restart"
    /\ RestartStop(t)

\* UpdateVideoConfig, lines 244-255: Restart has returned; 500 when it
\* returned an error, 200 otherwise
UpdateVideoReplies(t) ==
    /\ uvPc[t] = "restart"
    /\ rPc[t] = "done"
    /\ uvStatus' = [uvStatus EXCEPT ![t] = IF rErr[t] = "err" THEN 500
                                           ELSE 200]
    /\ uvPc' = [uvPc EXCEPT ![t] = "done"]
    /\ UNCHANGED <<config, rqPc, rqKind, rqReq, rqLocal, rqStatus, rqMsg,
                   videoCfg, uvBefore>>
    /\ UNCHANGED <<filterVars, hubVars, captureVars, dispatchVars, adminVars,
                   pipelineVars, alertsVars, scannerVars>>

\* the video source switched by HTTP requests while main has started the
\* capture; a decoder may end by itself
VideoNext ==
    \/ \E ok \in BOOLEAN : MainStart(ok)
    \/ \E p \in Starters : ProcessExits(p)
    \/ \E t \in Restarters, req \in VideoConfigRequests :
          UpdateVideoRejects(t, req)
    \/ \E t \in Restarters, req \in VideoConfigRequests :
          UpdateVideoStores(t, req)
    \/ \E t \in Restarters : UpdateVideoRestarts(t)
    \/ \E t \in Restarters : RestartNewCtx(t)
    \/ \E t \in Restarters : RestartNewCancel(t)
    \/ \E t \in Restarters, ok \in BOOLEAN : RestartStart(t, ok)
    \/ \E t \in Restarters : UpdateVideoReplies(t)

HandlerInit ==
    /\ videoCfg = DefaultVideo
    /\ uvPc = [t \in Restarters |-> "idle"]
    /\ uvStatus = [t \in Restarters |-> 0]
    /\ uvBefore = [t \in Restarters |->
                      [cfg |-> DefaultVideo, open |-> FALSE, cmd |-> "nil"]]
    /\ config = DefaultConfig
    /\ rqPc = [q \in Requesters |-> "idle"]
    /\ rqKind = [q \in Requesters |-> "none"]
    /\ rqReq = [q \in Requesters |-> NoReq]
    /\ rqLocal = [q \in Requesters |-> DefaultConfig]
    /\ rqStatus = [q \in Requesters |-> 0]
    /\ rqMsg = [q \in Requesters |-> ""]

HandlerNext ==
    \/ \E q \in Requesters, kind \in {"ai", "filter", "training"} :
          BindFails(q, kind)
    \/ \E q \in Requesters, kind \in {"ai", "filter", "training"} :
          \E req \in RequestsOf(kind) : HandlerBegins(q, kind, req)
    \/ \E q \in Requesters : HandlerUpdates(q)
    \/ \E q \in Requesters, m \in ServiceMessages : HandlerForwarded(q, m)

-----------------------------------------------------------------------------
Init ==
    /\ FilterInit
    /\ HubInit
    /\ CaptureInit
    /\ DispatchInit
    /\ AdminInit
    /\ PipelineInit
    /\ AlertsInit
    /\ ScannerInit
    /\ HandlerInit

SpecFilter == Init /\ [][FilterNext]_vars

SpecHub == Init /\ [][HubNext]_vars

SpecCapture == Init /\ [][CaptureNext \/ FrameConsumed]_vars

\* the capture engine started, stopped and started once more, without
\* Restart
StartStopNext ==
    \/ \E ok \in BOOLEAN : MainStart(ok)
    \/ MainStop
    \/ \E ok \in BOOLEAN : StartAfterStop(ok)
    \/ ProcessExits("main")
    \/ LoopInit("main")
    \/ \E out \in {"frame", "err", "eof"} : LoopRead("main", out)
    \/ LoopLoad("main")
    \/ LoopStore("main")
    \/ LoopSend("main")
    \/ FrameConsumed

SpecStartStop == Init /\ [][StartStopNext]_vars

\* the capture engine with every captureLoop goroutine scheduled again and
\* again: a loop that can take its next step takes it
SpecCaptureLive ==
    /\ SpecCapture
    /\ \A p \in Starters :
          /\ WF_vars(LoopInit(p))
          /\ WF_vars(\E out \in {"frame", "err", "eof"} : LoopRead(p, out))
          /\ WF_vars(LoopLoad(p))
          /\ WF_vars(LoopStore(p))
          /\ WF_vars(LoopSend(p))

SpecDispatch ==
    Init /\ [][DispatchNext \/ FrameProduced \/ ResultConsumed]_vars

\* the dispatch engine with further Start and Stop calls, each worker
\* followed from its select to the end of its client.Detect calls
DispatchCallsNext ==
    \/ \E ok \in BOOLEAN : GcStart(ok)
    \/ GcStop
    \/ GcStartAgain
    \/ GcStopAgain
    \/ \E w \in AllWorkers : WorkerExit(w)
    \/ \E w \in AllWorkers : WorkerTake(w)
    \/ \E w \in AllWorkers : DetectBegin(w)
    \/ \E w \in AllWorkers, out \in {"ok", "err", "resperr"} :
          DetectCall(w, out)
    \/ FrameProducedOn

SpecDispatchCalls == Init /\ [][DispatchCallsNext]_vars

\* the administrative calls, with main's Start and Stop of the GRPCClient
SpecAdmin ==
    Init /\ [][AdminNext \/ (\E ok \in BOOLEAN : GcStart(ok)) \/ GcStop]_vars

\* the dispatch engine with the consumers of the result queue
SpecPipeline ==
    Init /\ [][DispatchNext \/ FrameProduced \/ PipelineNext]_vars

\* main, line 60: videoCapture.Start(), after grpcClient.Start() of line 51
\* has returned
MainStartsCapture(ok) ==
    /\ gcPc # "init"
    /\ MainStart(ok)

\* main, line 151: grpcClient.Stop(), after videoCapture.Stop() of line 150
\* has returned
MainStopsDetect ==
    /\ mainPc = "stopped"
    /\ GcStop

\* main, line 152: wsServer.Stop(), which is hub.Stop(), after
\* grpcClient.Stop() has returned
MainStopsHub ==
    /\ mainPc = "stopped"
    /\ gcPc = "stopped"
    /\ StopCancel

\* main from construction to the end of its shutdown, in the order of its
\* statements, with the dispatch engine, the goroutines reading the result
\* queue and a hub without consumers whose Run takes nothing from h.broadcast
\* before the shutdown; every step that can be taken is taken in the end
ShutdownNext ==
    \/ \E ok \in BOOLEAN : GcStart(ok)
    \/ \E w \in AllWorkers : WorkerExit(w)
    \/ \E w \in AllWorkers : WorkerTake(w)
    \/ \E w \in AllWorkers : DetectBegin(w)
    \/ \E w \in AllWorkers, out \in {"ok", "err", "resperr"} :
          DetectCall(w, out)
    \/ \E w \in AllWorkers : SentLoad(w)
    \/ \E w \in AllWorkers : SentStore(w)
    \/ \E w \in AllWorkers : ErrorsLoad(w)
    \/ \E w \in AllWorkers : ErrorsStore(w)
    \/ \E w \in AllWorkers : DetectEnd(w)
    \/ \E w \in AllWorkers : ReceivedLoad(w)
    \/ \E w \in AllWorkers : ReceivedStore(w)
    \/ FrameProduced
    \/ PipelineNext
    \/ \E ok \in BOOLEAN : MainStartsCapture(ok)
    \/ MainStop
    \/ MainStopsDetect
    \/ MainStopsHub
    \/ StopLocked
    \/ HubRunExit

SpecShutdown == Init /\ [][ShutdownNext]_vars /\ WF_vars(ShutdownNext)

\* the state after construction with the filter configuration unscaled
InitSeconds ==
    /\ now = 0
    /\ filterCfg = DefaultFilterSeconds
    /\ activeAlerts = <<>>
    /\ saPc = [c \in Callers |-> "idle"]
    /\ saDet = [c \in Callers |-> NoDetection]
    /\ saCfg = [c \in Callers |-> DefaultFilter]
    /\ saLast = [res |-> FALSE, maxAge |-> -1, window |-> DefaultFilter.window,
                 uncertain |-> NoDetection.uncertain,
                 enable |-> DefaultFilter.enable]
    /\ saStale = [c \in Callers |-> FALSE]
    /\ saLog = <<>>
    /\ HubInit
    /\ CaptureInit
    /\ DispatchInit
    /\ AdminInit
    /\ PipelineInit
    /\ AlertsInit
    /\ ScannerInit
    /\ HandlerInit

\* ProcessDetections called result after result
SpecAlerts == InitSeconds /\ [][AlertsNext]_vars

\* the decoder's byte stream and the scanner reading it
SpecScanner == Init /\ [][ScannerNext]_vars

\* the configuration handlers serving concurrent requests
SpecHandler == Init /\ [][HandlerNext]_vars

\* UpdateVideoConfig serving concurrent requests
SpecVideo == Init /\ [][VideoNext]_vars

Next ==
    \/ FilterNext
    \/ HubNext
    \/ CaptureNext
    \/ DispatchNext
    \/ AdminNext
    \/ PipelineNext
    \/ AlertsNext
    \/ ScannerNext
    \/ HandlerNext

Spec == Init /\ [][Next]_vars

-----------------------------------------------------------------------------
(* Claims about the alert filter, checked under SpecFilter *)

\* C1: with the filter configuration held fixed and alert push enabled, of
\* two uncertain detections passed to ShouldAlert less than
\* TimeWindowSeconds apart (by the clock the calls read) whose boxes have an
\* IoU above the spatial threshold, at most one call returns true: saLog,
\* the calls that returned true since the configuration was last written,
\* never holds two such calls. (saLog starts afresh whenever the
\* configuration is written or a call acts on a configuration read before
\* the last write.)
C1_AtMostOneAlert ==
    \A i, j \in 1..Len(saLog) :
        i < j =>
            ~( /\ saLog[j].t - saLog[i].t < filterCfg.window
               /\ IoUExceeds(calculateIoU(saLog[i].box, saLog[j].box),
                             filterCfg.thr) )

\* a call was suppressed by an entry of an earlier call that returned true
C1_Witness ==
    /\ saLog # <<>>
    /\ ~saLast.res
    /\ saLast.maxAge >= 0

\* C2: every ActiveAlert entry a ShouldAlert call compares the candidate
\* against is younger than the time window the call uses, at the clock
\* value the call reads; an older entry is never compared, so never
\* suppresses.
C2_OnlyYoungEntriesCompared == saLast.maxAge < saLast.window

\* a call returned true after comparing against a surviving entry, while an
\* overlapping entry of an earlier call had expired
C2_Witness ==
    /\ saLast.res
    /\ saLast.maxAge >= 0
    /\ \E i, j \in 1..Len(saLog) :
          /\ i < j
          /\ IoUExceeds(calculateIoU(saLog[i].box, saLog[j].box), filterCfg.thr)

-----------------------------------------------------------------------------
(* Claims about the broadcast hub, checked under SpecHub *)

\* what is delivered to, or on its way to, consumer c, oldest first: written
\* to the peer, held by writePump, queued in c.send, held by Run, queued in
\* h.broadcast
Pipeline(c) ==
    received[c]
        \o (IF wPc[c] = "write" THEN <<wMsg[c]>> ELSE <<>>)
        \o send[c]
        \o (IF hubPc = "fanout" THEN <<hubArg>> ELSE <<>>)
        \o hubBroadcast

\* the events Broadcast was called with and did not drop, in order
Accepted(s) ==
    /\ \A i, j \in 1..Len(s) : i < j => s[i] < s[j]
    /\ SeqToSet(s) = (1..bcastCount) \ bcastDropped

\* consumer c was admitted before the first event, is still in h.clients and
\* its writePump is running
Healthy(c) ==
    /\ c \in hubClients
    /\ admittedAt[c] = 0
    /\ wPc[c] \in {"run", "write"}

\* C3 (as amended): every Broadcast call returns without blocking, the
\* fan-out pass never waits for a consumer, and a healthy consumer (admitted
\* before the first event, still in the consumer set, its writePump running)
\* has received or has still on the way to it, in order and without gaps,
\* exactly the events that Broadcast did not drop at a full h.broadcast.
C3_HealthyGetsAccepted ==
    /\ bcastCount < MaxMsgs => ENABLED Broadcast
    /\ hubPc = "fanout" => ENABLED HubFanOut
    /\ \A c \in Clients : Healthy(c) => Accepted(Pipeline(c))

\* one consumer stalled and was evicted by the fan-out, the other was
\* written every one of the MaxMsgs events
C3_Witness ==
    \E s, h \in Clients :
        /\ s # h
        /\ admittedAt[s] = 0 /\ sendClosed[s] /\ hPc[s] = "read"
        /\ wPc[s] # "exited"
        /\ stopPc = "idle"
        /\ Healthy(h)
        /\ Len(received[h]) = MaxMsgs

\* C3 as stated: once all MaxMsgs events are broadcast and everything is
\* drained, a consumer that was admitted before the first event, whose
\* connection is open and whose writePump is running has been written all of
\* them.
C3_HealthyReceivesAll ==
    \A c \in Clients :
        ( /\ admittedAt[c] = 0
          /\ hPc[c] = "read"
          /\ wPc[c] = "run"
          /\ stopPc = "idle"
          /\ bcastCount = MaxMsgs
          /\ hubBroadcast = <<>>
          /\ hubPc = "select"
          /\ send[c] = <<>> )
        => received[c] = [i \in 1..MaxMsgs |-> i]

\* C9: in a fan-out pass every consumer of the set whose queue is full is
\* removed from the set and its queue closed, every other consumer of the
\* set has the event appended to its queue in that same pass and stays, and
\* the pass never waits: it is always able to run and no queue ever holds
\* more than its capacity.
C9_FanOutEvictsFull ==
    /\ [][ (hubPc = "fanout" /\ hubPc' = "select") =>
             \A c \in hubClients :
                 IF Len(send[c]) >= SendCap
                 THEN /\ c \notin hubClients'
                      /\ sendClosed'[c]
                      /\ send'[c] = send[c]
                 ELSE /\ c \in hubClients'
                      /\ ~sendClosed'[c]
                      /\ send'[c] = Append(send[c], hubArg) ]_vars
    /\ [](hubPc = "fanout" => ENABLED HubFanOut)
    /\ [](\A c \in Clients : Len(send[c]) <= SendCap)

\* a pass has just evicted one consumer and appended the event to the other
C9_Witness ==
    \E s, h \in Clients :
        /\ s # h
        /\ hubPc = "select"
        /\ stopPc = "idle"
        /\ sendClosed[s] /\ s \notin hubClients /\ hPc[s] = "read"
        /\ Len(send[s]) = SendCap
        /\ h \in hubClients
        /\ send[h] # <<>>
        /\ send[h][Len(send[h])] > send[s][Len(send[s])]

\* C10 as stated: once Stop has returned and Run has returned, h.clients is
\* empty and the queue of every consumer that was ever put in h.clients is
\* closed.
C10_StopClosesAll ==
    (stopPc = "done" /\ hubPc = "exited") =>
        /\ hubClients = {}
        /\ \A c \in Clients : admittedAt[c] >= 0 => sendClosed[c]

\* C11 as stated: once Stop has returned, no step adds an event to
\* h.broadcast (a later Broadcast call enqueues nothing in the hub).
C11_NothingAcceptedAfterStop ==
    [][ stopPc = "done" => Len(hubBroadcast') <= Len(hubBroadcast) ]_vars

-----------------------------------------------------------------------------
(* Claims about the video capture engine, checked under SpecCapture *)

\* C5: at every moment at most one decoder process is running, and while
\* one is running every other command Start ever made has been killed and
\* waited for (or was never started) and its stdout pipe is closed, under
\* every interleaving of main's Start and Stop with concurrent Restart
\* calls.
C5_AtMostOneDecoder ==
    /\ Cardinality({ p \in Starters : cmds[p].state = "running" }) <= 1
    /\ \A p, q \in Starters :
          (p # q /\ cmds[p].state = "running") =>
              /\ cmds[q].state \in {"none", "failed", "reaped"}
              /\ ~cmds[q].pipeOpen

\* a decoder runs after an earlier one was killed and waited for, while
\* another Restart call is between its Stop and its Start
C5_Witness ==
    \E p, q \in Starters, t \in Restarters :
        /\ cmds[p].state = "running"
        /\ cmds[q].state = "reaped"
        /\ rPc[t] \in {"ctx", "cancel", "start"}

\* C6 as stated: the Frame.IDs assigned within one source lifetime go up by
\* exactly one from each frame to the next, and the frame queue holds its
\* frames in strictly increasing id order.
C6_IdsConsecutive ==
    /\ \A i \in 1..(Len(lifeIds) - 1) : lifeIds[i + 1] = lifeIds[i] + 1
    /\ \A i, j \in 1..Len(frameChan) : i < j => frameChan[i] < frameChan[j]

\* C7 as stated: the first Frame.ID assigned in a source lifetime that a
\* Restart call started is 1, the id of the first frame after the initial
\* Start.
C7_IdResetOnRestart ==
    (vcIsOpen /\ vcCmd \in Restarters /\ lifeIds # <<>>) => lifeIds[1] = 1

C16_PublishNeverBlocks ==
    /\ [](\A p \in Starters :
             (lpPc[p] = "send" /\ ~vcPanic) => ENABLED LoopSend(p))
    /\ [][ \A p \in Starters :
             (lpPc[p] = "send" /\ lpPc'[p] # "send") =>
                 /\ lpPc'[p] = "read"
                 /\ \/ frameChan' = frameChan
                    \/ frameChan' = Append(frameChan, lpVal[p]) ]_vars

\* every frame was parsed while nothing was consumed: the queue still
\* holds the first frame, a later one was dropped at the full queue, and
\* the loop is back at its read
C16_Witness ==
    /\ parsed = MaxFrames
    /\ frameID = MaxFrames
    /\ Len(frameChan) = FrameChanCap
    /\ frameChan[1] = 1
    /\ \E p \in Starters : lpPc[p] = "read" /\ vcCmd = p /\ vcIsOpen
    /\ \A p \in Starters : lpPc[p] \in {"none", "read", "exited"}

\* C18 as stated, for the Frame Source engine: a Stop on a stopped engine
\* changes nothing of the engine, and as long as every Restart call so far
\* began on a stopped engine no goroutine has panicked and every decoder
\* process that runs or is not waited for, and every open pipe, is the one
\* the engine tracks in vc.cmd and vc.stdout.
C18_StoppedStopAndRestart ==
    /\ [][ ( /\ ~vcIsOpen
             /\ \/ mainPc = "started" /\ mainPc' = "stopped"
                \/ \E t \in Restarters : rPc[t] = "idle" /\ rPc'[t] = "ctx" )
           => UNCHANGED <<vcIsOpen, vcCtx, vcCancel, ctxDone, vcCmd, vcStdout,
                          cmds, vcPanic, frameID, frameChan, lpPc>> ]_vars
    /\ []( ~restartedOpen =>
             /\ ~vcPanic
             /\ \A p \in Starters :
                   (cmds[p].state \in {"running", "exited"} \/ cmds[p].pipeOpen)
                       => (vcCmd = p /\ vcStdout = p) )

-----------------------------------------------------------------------------
(* Claims about the detection dispatch, checked under SpecDispatch *)

\* C4: for every frame a worker has taken from the frame queue at most 3
\* client.Detect calls are issued; a frame whose third attempt failed has
\* had exactly 3 calls, no DetectionResult is produced for it or put on the
\* result queue, and no frame a worker has taken is ever on the frame queue
\* again.
C4_AtMostThreeAttempts ==
    /\ \A f \in FrameIds : calls[f] <= 3
    /\ \A f \in FrameIds : calls[f] > 0 => f \in taken
    /\ \A f \in gaveUp :
          /\ calls[f] = 3
          /\ f \notin results
          /\ f \notin SeqToSet(resultChan)
    /\ \A f \in taken : f \notin SeqToSet(frameChan)

\* a frame was given up after its third failed attempt and its worker is
\* back at its select, holding nothing; another frame got a result
C4_Witness ==
    \E f \in gaveUp, g \in results :
        /\ calls[f] = 3
        /\ \A w \in Workers : wkPc[w] = "select" /\ wkFrame[w] = 0

-----------------------------------------------------------------------------
(* Claims about the administrative calls, checked under SpecAdmin *)

\* C12 as stated: an UpdateAIParams or ReloadModel call made while gc.conn
\* is nil returns no error and a response with Success true and the
\* local-only message.
C12_LocalOnlyWhenNoConn ==
    \A a \in Admins :
        (adPc[a] = "done" /\ adNoConn[a]) =>
            adResp[a] = Resp("nil", TRUE, "local-only")

\* C13 as stated: a call that began while the connection existed and
\* started its RPC never ends with the error of a connection closed by
\* Stop: it ends by a response, a transport error or its own timeout.
C13_NotFailedByStop ==
    \A a \in Admins :
        (adPc[a] = "done" /\ ~adNoConn[a]) => adResp[a].err # "closing"

-----------------------------------------------------------------------------
(* Claims about the result queue's consumers, checked under SpecPipeline *)

\* C14 as stated: every result taken from the result queue and forwarded
\* by broadcastLoop is also processed by the alert filter: once
\* processAlerts has returned, each forwarded result has been passed to
\* AlertFilter.ProcessDetections.
C14_BothConsumersProcess ==
    paPc = "returned" => framesBroadcast \subseteq pdSeen

\* C15 as stated: a frame whose detect calls all failed is still broadcast
\* as a "frame" event: once its worker has let go of it, it has been passed
\* to Hub.Broadcast or is on the result queue on its way there.
C15_FrameOnlyBroadcast ==
    \A f \in gaveUp :
        (\A w \in Workers : wkFrame[w] # f) =>
            f \in framesBroadcast \cup SeqToSet(resultChan)

-----------------------------------------------------------------------------
(* Claims about ProcessDetections, checked under SpecAlerts *)

\* the scenario's detections A, B, C, D, the seconds from A at which they
\* are processed, and the results claimed
ScenarioDets ==
    << [box |-> Box(100, 100, 200, 200), uncertain |-> FALSE],
       [box |-> Box(100, 100, 200, 200), uncertain |-> TRUE],
       [box |-> Box(110, 105, 205, 205), uncertain |-> TRUE],
       [box |-> Box(110, 105, 205, 205), uncertain |-> TRUE] >>

ScenarioOffsets == <<0, 0, 2, 63>>

ScenarioResults == <<FALSE, TRUE, FALSE, TRUE>>

\* the first n calls are the first n steps of the scenario
ScenarioPrefix(n) ==
    \A i \in 1..n :
        /\ pdLog[i].det = ScenarioDets[i]
        /\ pdLog[i].t = pdLog[1].t + ScenarioOffsets[i]

\* C19: with threshold 0.5 and window 60 s, on a fresh filter: A, box
\* (100,100,200,200), not uncertain, gives no alert; B, same box, uncertain,
\* gives an alert; C, box (110,105,205,205), uncertain, 2 s later, is
\* suppressed; D, identical to C, 61 s after C, gives an alert.
C19_Scenario ==
    (filterCfg.thr = 50 /\ filterCfg.window = 60) =>
        \A n \in 1..Len(pdLog) :
            (n <= Len(ScenarioDets) /\ ScenarioPrefix(n)) =>
                pdLog[n].res = ScenarioResults[n]

\* the whole scenario has been played
C19_Witness ==
    /\ Len(pdLog) = Len(ScenarioDets)
    /\ ScenarioPrefix(Len(ScenarioDets))
    /\ [i \in 1..Len(pdLog) |-> pdLog[i].res] = ScenarioResults
    /\ Cardinality(pdAlerts) = 2

\* the box expanded by half its width to the left and right and by half
\* its height up and down, clipped to the frame
ExpandClip(box, frame) ==
    LET w == box.x2 - box.x1
        h == box.y2 - box.y1
    IN  Box(max32(0, box.x1 - w \div 2), max32(0, box.y1 - h \div 2),
            min32(frame.width, box.x2 + w \div 2),
            min32(frame.height, box.y2 + h \div 2))

\* C20 as stated: every AlertMessage ProcessDetections has returned carries
\* the crop of the detection box expanded by 50% on every side and clipped
\* to the frame.
C20_CropExpanded ==
    \A a \in pdAlerts : a.msg.imageData = ExpandClip(a.msg.box, a.frame)

-----------------------------------------------------------------------------
(* Claims about the JPEG scanner, checked under SpecScanner *)

\* the two bytes a, b stand at positions i and i + 1 of the stream
MarkerAt(a, b, i) ==
    /\ i >= 1
    /\ i + 1 <= Len(scStream)
    /\ scStream[i] = a
    /\ scStream[i + 1] = b

\* the first position at or after from where the marker a b stands, 0 when
\* there is none
FirstMarker(a, b, from) ==
    IF \E i \in from..Len(scStream) : MarkerAt(a, b, i)
    THEN CHOOSE i \in from..Len(scStream) :
             /\ MarkerAt(a, b, i)
             /\ \A j \in from..(i - 1) : ~MarkerAt(a, b, j)
    ELSE 0

\* C17 as stated: every frame emitted is the byte range from the first
\* start marker FF D8 at or after the position where its scan began through
\* the first end marker FF D9 that follows that start marker, inclusive, and
\* the next scan begins right after that end marker.
C17_FrameIsMarkerRange ==
    \A k \in 1..Len(scFrames) :
        LET from == scFrames[k].from
            start == FirstMarker("FF", "D8", from)
            end == FirstMarker("FF", "D9", start + 2)
        IN  /\ start # 0
            /\ end # 0
            /\ scFrames[k].data = SubSeq(scStream, start, end + 1)
            /\ scFrames[k].next = end + 2

-----------------------------------------------------------------------------
(* Claims about the configuration handlers, checked under SpecHandler *)

\* some value of the request lies outside the range its handler states
OutOfRange(req) ==
    \/ req.conf # <<>> /\ ~(req.conf[1] \in 0..100)
    \/ req.ent # <<>> /\ ~(req.ent[1] \in 0..100)
    \/ req.nms # <<>> /\ ~(req.nms[1] \in 50..100)
    \/ req.size # <<>> /\ ~(req.size[1] \in {320, 640, 1280})
    \/ req.thr # <<>> /\ ~(req.thr[1] \in 0..100)
    \/ req.window # <<>> /\ ~(req.window[1] \in 1..120)
    \/ req.trigger # <<>> /\ ~(req.trigger[1] \in 50..500)

\* the requests whose Update* call has been made
Applied(kind) ==
    { q \in Requesters :
        rqKind[q] = kind /\ rqPc[q] \in {"forward", "done"}
            /\ rqStatus[q] # 400 }

\* C21: a request that was bound and holds a value out of range is
\* answered 400, and no request in range is; the step that answers 400
\* leaves every section of the Config as it was; and every value in the
\* Config is the default or the very value an applied request in range
\* carried, so that nothing was clamped.
C21_OutOfRangeRejectedWhole ==
    /\ [](\A q \in Requesters :
            (rqPc[q] # "idle" /\ rqMsg[q] # "bind") =>
                ((rqPc[q] = "done" /\ rqStatus[q] = 400)
                    <=> OutOfRange(rqReq[q])))
    /\ [][ \A q \in Requesters :
            (rqStatus[q] # 400 /\ rqStatus'[q] = 400) => config' = config
         ]_vars
    /\ [](/\ \A f \in {"conf", "ent", "nms", "size"} :
                \/ config.ai[f] = DefaultConfig.ai[f]
                \/ \E q \in Applied("ai") :
                      ~OutOfRange(rqReq[q]) /\ rqReq[q][f] = <<config.ai[f]>>
          /\ \A f \in {"thr", "window", "enable", "auto"} :
                \/ config.filter[f] = DefaultConfig.filter[f]
                \/ \E q \in Applied("filter") :
                      ~OutOfRange(rqReq[q])
                          /\ rqReq[q][f] = <<config.filter[f]>>
          /\ \/ config.training.trigger = DefaultConfig.training.trigger
             \/ \E q \in Applied("training") :
                   ~OutOfRange(rqReq[q])
                       /\ rqReq[q].trigger = <<config.training.trigger>>)

\* a request whose confidence threshold is in range and whose entropy
\* threshold is not has been answered 400 while another request's values
\* were applied
C21_Witness ==
    \E q, r \in Requesters :
        /\ rqPc[q] = "done" /\ rqStatus[q] = 400
        /\ rqReq[q].conf = <<30>> /\ rqReq[q].ent = <<-1>>
        /\ config.ai.conf = DefaultConfig.ai.conf
        /\ rqPc[r] = "done" /\ rqStatus[r] = 200 /\ rqKind[r] = "ai"
        /\ config.ai.nms = 60

-----------------------------------------------------------------------------
(* Claims about ShouldAlert's early returns, checked under SpecFilter *)

\* C22: a ShouldAlert call for a detection that is not flagged uncertain,
\* or made while EnableAlertPush is false, returns false, and the step in
\* which it returns leaves the ActiveAlert list as it was: nothing is
\* purged and nothing is appended.
C22_PassThroughNoBookkeeping ==
    /\ []((~saLast.uncertain \/ ~saLast.enable) => ~saLast.res)
    /\ [][ (saLast' # saLast /\ (~saLast'.uncertain \/ ~saLast'.enable))
              => activeAlerts' = activeAlerts ]_vars

\* an uncertain detection was passed while the push was disabled and the
\* list holds an entry a purge would have removed
C22_Witness ==
    /\ saLast.uncertain
    /\ ~saLast.enable
    /\ ~filterCfg.enable
    /\ activeAlerts # <<>>
    /\ PurgeExpired(activeAlerts, ExpireTime(now, filterCfg)) # activeAlerts

\* the entries of the list that are younger than the window cfg at time t,
\* in their order
Surviving(alerts, cfg, t) ==
    SelectSeq(alerts, LAMBDA a : t - a.ts < cfg.window)

\* C23: when a call reaches the overlap check and some surviving entry has
\* an IoU with the candidate above the threshold, the call returns false
\* (no alert), and the list it leaves is the list it found without the
\* expired entries: nothing is appended and every surviving entry keeps
\* its box and its timestamp.
C23_SuppressedNoMutation ==
    [][ \A c \in Callers :
          (/\ saPc[c] = "lock"
           /\ saPc'[c] = "idle"
           /\ \E i \in 1..Len(activeAlerts) :
                 /\ now - activeAlerts[i].ts < saCfg[c].window
                 /\ IoUExceeds(calculateIoU(saDet[c].box,
                                            activeAlerts[i].box),
                               saCfg[c].thr))
          => /\ ~saLast'.res
             /\ activeAlerts' = Surviving(activeAlerts, saCfg[c], now)
             /\ Len(saLog') <= Len(saLog)
      ]_vars

\* a call was suppressed by an entry made at an earlier time
C23_Witness ==
    /\ ~saLast.res
    /\ saLast.uncertain
    /\ saLast.enable
    /\ saLast.maxAge >= 1
    /\ \E i \in 1..Len(activeAlerts) : activeAlerts[i].ts < now

-----------------------------------------------------------------------------
(* Claims about the frame size limit, checked under SpecScanner *)

\* the bytes p, which begin with a start marker, hold no end marker FF D9
\* after it
NoEndMarker(p) ==
    \A i \in 3..(Len(p) - 1) : ~(p[i] = "FF" /\ p[i + 1] = "D9")

\* C24 as stated: no frame is emitted for bytes that exceed the limit
\* before an end marker is seen, that is, no emitted frame has a prefix
\* longer than the limit that holds no end marker; and a call that counts
\* an error counts one, emits nothing, leaves the loop running and moves
\* the reader on.
C24_OversizeAborted ==
    /\ [](\A k \in 1..Len(scFrames) :
            \A n \in (FrameLimit + 1)..Len(scFrames[k].data) :
                ~NoEndMarker(SubSeq(scFrames[k].data, 1, n)))
    /\ [][ scErrors' # scErrors =>
              /\ scErrors' = scErrors + 1
              /\ scFrames' = scFrames
              /\ scPc' = "scan"
              /\ scPos' > scPos ]_vars

-----------------------------------------------------------------------------
(* Claims about the end of the decoder's stream, checked under
   SpecCapture *)

-----------------------------------------------------------------------------
(* Claims about the capture loop after Stop, checked under
   SpecCaptureLive *)

\* C26 as stated, for the capture loop: once Stop (called by main or inside
\* a Restart) has killed and reaped the decoder a Start call started, the
\* captureLoop that Start call spawned eventually returns (or the program
\* has ended in a panic).
C26_LoopExitsAfterStop ==
    \A p \in Starters :
        (cmds[p].state = "reaped") ~> (lpPc[p] = "exited" \/ vcPanic)

-----------------------------------------------------------------------------
(* Claims about detect's retries, checked under SpecDispatch *)

\* the attempts made so far for the frame a worker holds
Attempts(w) == calls[wkFrame[w]]

\* C27: while a worker is about to make an attempt, every attempt made so
\* far for its frame failed, fewer than 3 were made and each was followed by
\* one sleep; once the attempts are over, the last one succeeded or was the
\* third, the sleeps are one fewer than the attempts (none after the last),
\* and exactly the frames whose attempts ended in a success have a
\* DetectionResult, one each.
C27_RetryIffFailedAndLeft ==
    /\ \A w \in Workers :
          wkPc[w] = "call" =>
              /\ Attempts(w) < 3
              /\ Attempts(w) > 0 => wkResp[w] \in {"err", "resperr"}
              /\ slept[wkFrame[w]] = Attempts(w)
              /\ yielded[wkFrame[w]] = 0
    /\ \A w \in Workers :
          wkPc[w] = "finish" =>
              /\ Attempts(w) \in 1..3
              /\ wkResp[w] = "ok" \/ Attempts(w) = 3
              /\ slept[wkFrame[w]] = Attempts(w) - 1
              /\ yielded[wkFrame[w]] = 0
    /\ \A f \in FrameIds :
          (\A w \in Workers : wkFrame[w] # f) =>
              /\ calls[f] > 0 => slept[f] = calls[f] - 1
              /\ yielded[f] = IF f \in results THEN 1 ELSE 0
              /\ (calls[f] > 0 /\ f \notin gaveUp) <=> f \in results

\* a frame got its DetectionResult at the second attempt, after one sleep,
\* and another frame was given up after three attempts and two sleeps
C27_Witness ==
    \E f, g \in FrameIds :
        /\ \A w \in Workers : wkFrame[w] = 0
        /\ calls[f] = 2 /\ slept[f] = 1 /\ yielded[f] = 1
        /\ calls[g] = 3 /\ slept[g] = 2 /\ yielded[g] = 0 /\ g \in gaveUp

-----------------------------------------------------------------------------
(* Claims about the worker pool, checked under SpecDispatchCalls *)

\* the workers with a client.Detect call in flight
InFlight == { w \in AllWorkers : wkPc[w] = "call" }

\* C28 as stated: at any time at most workerCount detect calls are in
\* flight, and no frame is held by two workers.
C28_AtMostNInFlight ==
    /\ Cardinality(InFlight) <= WorkerCount
    /\ \A v, w \in AllWorkers :
          (v # w /\ wkFrame[v] # 0) => wkFrame[v] # wkFrame[w]

-----------------------------------------------------------------------------
(* Claims about the order of the results, checked under SpecDispatch *)

\* C29 as stated: the results are sent on the result queue in increasing
\* FrameID order.
C29_ResultsInOrder ==
    \A i, j \in 1..Len(placed) : i < j => placed[i] < placed[j]

-----------------------------------------------------------------------------
(* Claims about the goroutines without a stop signal, checked under
   SpecShutdown *)

\* main has called Stop on the VideoCapture, the GRPCClient and the
\* WebSocketServer, and the calls have returned
ShutDown == mainPc = "stopped" /\ gcPc = "stopped" /\ stopPc = "done"

\* C30 as stated: once Stop has been called on every engine, broadcastLoop,
\* alertLoop and the AlertFilter's cleanupLoop eventually return.
C30_ForwardersTerminate ==
    ShutDown ~> (blPc = "returned" /\ alPc = "returned" /\ clPc = "returned")

-----------------------------------------------------------------------------
(* Claims about the switch of the video source, checked under SpecVideo *)

\* request t is the only UpdateVideoConfig call made so far and it was
\* answered 500: Restart returned a start error
SwitchFailed(t) ==
    /\ uvPc[t] = "done"
    /\ uvStatus[t] = 500
    /\ \A u \in Restarters \ {t} : uvPc[u] = "idle"

\* C31 as stated: when the switch of the video source fails, the stored
\* video configuration and the capture (vc.isOpen, vc.cmd) are those of
\* before the request.
C31_FailedSwitchKeepsSource ==
    \A t \in Restarters :
        SwitchFailed(t) =>
            /\ videoCfg = uvBefore[t].cfg
            /\ vcIsOpen = uvBefore[t].open
            /\ vcCmd = uvBefore[t].cmd

\* C32: a filter configuration written to the Config is the one every
\* ShouldAlert call and every sweep that begins after the write uses: a
\* call in its locked section that began after the last write holds the
\* stored configuration and returns the verdict the stored threshold and
\* window give, a call that returns before the lock was decided by the
\* stored push flag, and a sweep keeps exactly the entries younger than the
\* stored window.
C32_ChangeUsedAtOnce ==
    /\ [](\A c \in Callers :
             (saPc[c] = "lock" /\ ~saStale[c]) => saCfg[c] = filterCfg)
    /\ [][\A c \in Callers :
             (saPc[c] = "lock" /\ ~saStale[c] /\ saPc'[c] = "idle") =>
                 /\ saLast'.window = filterCfg.window
                 /\ saLast'.res =
                        ~Suppressed(saDet[c],
                                    Surviving(activeAlerts, filterCfg, now),
                                    filterCfg)]_vars
    /\ [][(saLast' # saLast /\ saPc' = saPc) =>
             saLast'.enable = filterCfg.enable]_vars
    /\ [][(activeAlerts' # activeAlerts /\ saPc' = saPc /\ saLast' = saLast)
             => activeAlerts' = Surviving(activeAlerts, filterCfg, now)]_vars

\* a call that began after the configuration was changed is in its locked
\* section with the changed threshold and window, while the list holds an
\* entry the changed window has expired
C32_Witness ==
    /\ filterCfg = [thr |-> 70, window |-> 1, enable |-> TRUE]
    /\ \E c \in Callers :
          saPc[c] = "lock" /\ ~saStale[c] /\ saCfg[c] = filterCfg
    /\ \E i \in 1..Len(activeAlerts) : now - activeAlerts[i].ts = 1

-----------------------------------------------------------------------------
(* Further claims about the hub, checked under SpecHub *)

\* C33: no client.send is closed twice and nothing is sent on a closed
\* client.send, whatever the order of fan-out evictions, unregister
\* requests and Hub.Stop: no close or send ever meets a closed channel, a
\* client in h.clients has an open channel, and a closed channel gets no
\* further message.
C33_NoDoubleCloseNoSendClosed ==
    /\ [](~hubPanic)
    /\ [](\A c \in hubClients : ~sendClosed[c])
    /\ [][\A c \in Clients :
             sendClosed[c] =>
                 /\ sendClosed'[c]
                 /\ Len(send'[c]) <= Len(send[c])]_vars

\* Stop has closed a consumer's channel and Run holds that consumer's
\* unregister request, which it is about to serve
C33_Witness ==
    /\ ~hubPanic
    /\ stopPc = "done"
    /\ hubPc = "unregister"
    /\ sendClosed[hubArg]

\* C37 as stated, checked under SpecHub: a handler's unregister send always
\* completes: no handler waits at it when Run has returned (Run is started
\* once and nothing else receives from h.unregister).
C37_UnregisterCompletes ==
    \A c \in Clients : hPc[c] = "unregister" => hubPc # "exited"

\* what has been put into consumer c's channel and not lost with a failed
\* write, oldest first: written to the peer, held by writePump, queued
Delivered(c) ==
    received[c]
        \o (IF wPc[c] = "write" THEN <<wMsg[c]>> ELSE <<>>)
        \o send[c]

\* the place of event x in sequence t
PosIn(t, x) == CHOOSE i \in 1..Len(t) : t[i] = x

\* s holds events of t only, each once, in the order they have in t
InOrderOf(s, t) ==
    /\ \A i \in 1..Len(s) : \E k \in 1..Len(t) : t[k] = s[i]
    /\ \A i, j \in 1..Len(s) : i < j => PosIn(t, s[i]) < PosIn(t, s[j])

-----------------------------------------------------------------------------
(* Further claims about the video capture, checked under SpecCapture *)

\* C34 as stated: vc.isOpen is true only while the decoder and its
\* captureLoop are running; once the loop of the current command has
\* returned, isOpen is false.
C34_OpenOnlyWhileRunning ==
    (vcIsOpen /\ vcCmd # "nil") => lpPc[vcCmd] # "exited"

\* C35 as stated, checked under SpecStartStop: a Start that follows a Stop
\* without Restart, with a decoder that can be started, runs the engine as
\* the first Start did: the capture is open with a decoder bound to a
\* context that is not cancelled.
C35_StartAfterStopRuns ==
    (mainPc = "again" /\ againOk) =>
        /\ vcIsOpen
        /\ cmds["main"].state \in {"running", "exited"}
        /\ vcCtx \notin ctxDone

-----------------------------------------------------------------------------
(* A further claim about the administrative calls, checked under SpecAdmin *)

\* C36 as stated: once Stop has closed the connection, an UpdateAIParams or
\* ReloadModel call that finds gc.conn nil issues no RPC and returns no
\* error.
C36_AfterStopNoRpc ==
    \A a \in Admins :
        (gcPc = "stopped" /\ adNoConn[a]) =>
            /\ adPc[a] # "rpc"
            /\ adResp[a].err \in {"nil", "none"}

-----------------------------------------------------------------------------
(* Claims about the dispatch counters, checked under SpecDispatch *)

\* no worker is between taking a frame and being back at its select
AllIdle == \A w \in AllWorkers : wkPc[w] \in {"off", "select", "stopped"}

\* C39 as stated: once all workers are idle, total_sent is the number of
\* frames whose detect call concluded, errors the number of frames that
\* finally failed and total_received the number of results sent on the
\* result queue.
C39_CountersExact ==
    AllIdle =>
        /\ totalSent = Cardinality(results \cup gaveUp)
        /\ errors = Cardinality(gaveUp)
        /\ totalReceived = Len(placed)

-----------------------------------------------------------------------------
(* A further claim about the configuration handlers, checked under
   SpecHandler *)

\* the fields a request gives a value for
FieldsSet(req) == { f \in DOMAIN req : req[f] # <<>> }

\* C40 as stated: when two requests for the same section that set different
\* fields have both been answered 200, the section holds the values of
\* both.
C40_BothPartialUpdatesApply ==
    \A q, r \in Requesters :
        ( /\ q # r
          /\ rqPc[q] = "done" /\ rqStatus[q] = 200
          /\ rqPc[r] = "done" /\ rqStatus[r] = 200
          /\ rqKind[q] = rqKind[r]
          /\ FieldsSet(rqReq[q]) \cap FieldsSet(rqReq[r]) = {} )
        => \A f \in FieldsSet(rqReq[q]) :
               config[rqKind[q]][f] = rqReq[q][f][1]

=============================================================================
